---- MODULE Spec2Model ----
(***************************************************************************)
(* Market_Rader: delivery ledger (src/utils/cache.py), weekly archive      *)
(* (src/utils/weekly_archive.py), importance scorer                        *)
(* (src/analyzer/importance_scorer.py) and the pipeline run that ties them *)
(* together (src/main.py, src/discord/webhook.py).                         *)
(*                                                                         *)
(* Conventions.                                                            *)
(*  - Scores and weights are fixed-point integers in thousandths           *)
(*    (0.5 is 500); market values are in hundredths (100.00 is 10000).     *)
(*  - A JSON list on disk is a sequence; a Python set is a set.           *)
(*  - Dates are day numbers; day 0 is a Monday.  "%Y-%m-%d" keys sort      *)
(*    lexicographically in day order, so a key is modelled by its number.  *)
(***************************************************************************)
EXTENDS Integers, Sequences, FiniteSets, TLC

VARIABLES
    cache,      \* SentItemsCache.cache of the running process (dict)
    file,       \* content of data/sent_items.json
    last,       \* the call that ran last and what it found ("hit", "known")
    nOps,       \* number of operations performed so far
    archive,    \* content of data/weekly_archive.json
    today,      \* the date datetime.now() falls on
    ret,        \* value returned by the last add_items call
    records,    \* the ContentItem objects of the batch being processed
    ruleset,    \* what ImportanceScorer.__init__ loaded from the YAML config
    pc,         \* position of the current pipeline run inside main()
    run,        \* local variables of the current pipeline run
    channel,    \* ids shown by the messages the Discord webhook accepted
    workers     \* the threads of the pool: their call and their position in it

ledgerVars == <<cache, file>>

archiveVars == <<archive, today, ret>>

scorerVars == <<records, ruleset>>

pipelineVars == <<pc, run, channel, workers>>

vars ==
    <<cache, file, last, nOps, archive, today, ret, records, ruleset, pc, run,
      channel, workers>>

(***************************************************************************)
(* Bounds                                                                  *)
(***************************************************************************)
MaxIds == 2

MaxBatch == 2

MaxOps == 3

MaxUrls == 2

MaxItemsBatch == 2

MaxDays == 2

MaxRecords == 2

MaxRuns == 2

MaxRounds == 1

MaxKept == 1

(***************************************************************************)
(* Generic helpers                                                         *)
(***************************************************************************)
Range(s) == {s[i] : i \in 1..Len(s)}

RECURSIVE ListOf(_)
ListOf(S) ==
    IF S = {} THEN {<<>>}
    ELSE UNION {{<<x>> \o p : p \in ListOf(S \ {x})} : x \in S}

SeqsUpTo(S, n) == UNION {[1..k -> S] : k \in 0..n}

Put(d, k, v) == [x \in (DOMAIN d) \cup {k} |-> IF x = k THEN v ELSE d[x]]

(***************************************************************************)
(* Delivery ledger: src/utils/cache.py                                     *)
(***************************************************************************)
IdOf(n) == "id" \o ToString(n)

Ids == {IdOf(n) : n \in 1..MaxIds}

Categories == {"news", "reports", "youtube", "morning_brief", "weekend"}

SavedCategories == {"news", "reports", "youtube"}

CleanupMaxItems == 1000

\* A stored file: whether it exists, what json.load makes of its text
\* ("invalid": JSONDecodeError, "array": a list, "object": a dict) and the
\* keys of the dict.
NoFile ==
    [exists |-> FALSE, json |-> "object",
     news |-> <<>>, reports |-> <<>>, youtube |-> <<>>,
     last_updated |-> "None"]

EmptyCache ==
    [k \in SavedCategories \cup {"last_updated"} |->
        IF k = "last_updated" THEN "None" ELSE {}]

\* data.get(key, default)
GetOr(data, key, default) == IF key \in DOMAIN data THEN data[key] ELSE default

\* _load_cache for every file but one that holds a JSON array
_load_cache(f) ==
    IF ~f.exists \/ f.json = "invalid" THEN EmptyCache
    ELSE [k \in SavedCategories \cup {"last_updated"} |->
            IF k = "last_updated" THEN GetOr(f, k, "None")
            ELSE Range(GetOr(f, k, <<>>))]

Stamp(c) == [c EXCEPT !["last_updated"] = "ts"]

\* list(set) as written to disk.  The order of the written list is read back
\* only through set(list), so one representative order stands for all.
RECURSIVE SetToList(_)
SetToList(S) ==
    IF S = {} THEN <<>>
    ELSE LET x == CHOOSE y \in S : TRUE IN <<x>> \o SetToList(S \ {x})

\* the document _save_cache writes for cache c
_save_cache(c) ==
    [exists |-> TRUE, json |-> "object", news |-> SetToList(c["news"]),
     reports |-> SetToList(c["reports"]), youtube |-> SetToList(c["youtube"]),
     last_updated |-> "ts"]

WithCategory(c, category) ==
    IF category \notin DOMAIN c THEN Put(c, category, {}) ELSE c

is_sent(item_id, category) ==
    /\ cache' = WithCategory(cache, category)
    /\ last' = [op |-> "is_sent", hit |-> item_id \in cache'[category]]
    /\ UNCHANGED file

\* mark_as_sent without the membership guard, appending to the stored list
mark_as_sent_append(item_id, category) ==
    LET c1 == WithCategory(cache, category)
        c2 == Stamp([c1 EXCEPT ![category] = @ \cup {item_id}])
        f2 == _save_cache(c2) IN
    /\ last' = [op |-> "mark_as_sent", hit |-> item_id \in c1[category]]
    /\ cache' = c2
    /\ file' = IF category \in SavedCategories /\ item_id \in c1[category]
               THEN [f2 EXCEPT ![category] = Append(@, item_id)]
               ELSE f2

mark_as_sent(item_id, category) ==
    LET c1 == WithCategory(cache, category) IN
    /\ last' = [op |-> "mark_as_sent", hit |-> item_id \in c1[category]]
    /\ IF item_id \notin c1[category]
       THEN LET c2 == Stamp([c1 EXCEPT ![category] = @ \cup {item_id}]) IN
            /\ cache' = c2
            /\ file' = _save_cache(c2)
       ELSE /\ cache' = c1
            /\ UNCHANGED file

mark_multiple_as_sent(item_ids, category) ==
    LET c1 == WithCategory(cache, category)
        c2 == Stamp([c1 EXCEPT ![category] = @ \cup Range(item_ids)]) IN
    /\ last' = [op |-> "mark_multiple_as_sent",
                hit |-> Range(item_ids) \subseteq c1[category]]
    /\ cache' = c2
    /\ file' = _save_cache(c2)

\* items_list[-max_items:] of one list(set) order
KeepLast(S, max_items) ==
    IF Cardinality(S) > max_items
    THEN {Range(SubSeq(l, Len(l) - max_items + 1, Len(l))) : l \in ListOf(S)}
    ELSE {S}

\* cleanup_old_entries with max_items as a parameter
cleanup_keeping(max_items) ==
    \E kn \in KeepLast(cache["news"], max_items),
       kr \in KeepLast(cache["reports"], max_items),
       ky \in KeepLast(cache["youtube"], max_items) :
        LET c2 == Stamp([cache EXCEPT !["news"] = kn, !["reports"] = kr,
                                      !["youtube"] = ky]) IN
        /\ cache' = c2
        /\ file' = _save_cache(c2)
        /\ last' = [op |-> "cleanup_old_entries", hit |-> FALSE]

cleanup_old_entries == cleanup_keeping(CleanupMaxItems)

\* a new process imports src.utils.cache: cache = SentItemsCache()
Restart ==
    /\ cache' = _load_cache(file)
    /\ last' = [op |-> "restart", hit |-> FALSE]
    /\ UNCHANGED file

Tick == nOps < MaxOps /\ nOps' = nOps + 1

IsSent ==
    /\ Tick /\ UNCHANGED <<archiveVars, scorerVars, pipelineVars>>
    /\ \E id \in Ids, cat \in Categories : is_sent(id, cat)

MarkAsSent ==
    /\ Tick /\ UNCHANGED <<archiveVars, scorerVars, pipelineVars>>
    /\ \E id \in Ids, cat \in Categories : mark_as_sent(id, cat)

MarkMultipleAsSent ==
    /\ Tick /\ UNCHANGED <<archiveVars, scorerVars, pipelineVars>>
    /\ \E ids \in SeqsUpTo(Ids, MaxBatch), cat \in Categories :
            mark_multiple_as_sent(ids, cat)

CleanupOldEntries ==
    Tick /\ UNCHANGED <<archiveVars, scorerVars, pipelineVars>> /\ cleanup_old_entries

RestartProcess == Tick /\ UNCHANGED <<archiveVars, scorerVars, pipelineVars>> /\ Restart

\* Damaged files.  A run starts on files that are missing, hold no JSON,
\* hold a JSON array, or hold an object without its lists.
StoredLedgers ==
    {NoFile,
     [exists |-> TRUE, json |-> "invalid"],
     [exists |-> TRUE, json |-> "array"],
     [exists |-> TRUE, json |-> "object"],
     [exists |-> TRUE, json |-> "object", news |-> <<IdOf(1)>>]}

Raise(op) ==
    /\ last' = [op |-> "raised", hit |-> FALSE, in |-> op]
    /\ UNCHANGED <<ledgerVars, archiveVars>>

ProcessAlive == last.op \notin {"init", "raised"}

\* SentItemsCache(): data.get(...) of a list raises AttributeError, which
\* "except (json.JSONDecodeError, IOError)" does not catch
LoadStored ==
    /\ Tick /\ UNCHANGED <<scorerVars, pipelineVars>>
    /\ IF file.exists /\ file.json = "array"
       THEN Raise("_load_cache")
       ELSE Restart /\ UNCHANGED archiveVars

LedgerCall ==
    /\ ProcessAlive
    /\ Tick /\ UNCHANGED <<archiveVars, scorerVars, pipelineVars>>
    /\ \E id \in Ids, cat \in {"news", "weekend"} :
          \/ is_sent(id, cat)
          \/ mark_as_sent(id, cat)
          \/ mark_multiple_as_sent(<<id>>, cat)

\* Unwritable storage.  open(cache_file, "w") raises IOError; _save_cache
\* catches it, logs, and the call returns with the set updated in memory.
unwritable_mark(op, item_ids, category) ==
    LET c1 == WithCategory(cache, category)
        c2 == [c1 EXCEPT ![category] = @ \cup Range(item_ids)] IN
    /\ cache' = IF op = "mark_as_sent" /\ item_ids[1] \in c1[category]
                THEN c1 ELSE Stamp(c2)
    /\ last' = [op |-> op, hit |-> Range(item_ids) \subseteq c1[category],
                failed |-> TRUE, item_ids |-> item_ids, category |-> category]
    /\ UNCHANGED file

unwritable_cleanup ==
    \E kn \in KeepLast(cache["news"], CleanupMaxItems),
       kr \in KeepLast(cache["reports"], CleanupMaxItems),
       ky \in KeepLast(cache["youtube"], CleanupMaxItems) :
        /\ cache' = Stamp([cache EXCEPT !["news"] = kn, !["reports"] = kr,
                                        !["youtube"] = ky])
        /\ last' = [op |-> "cleanup_old_entries", hit |-> FALSE, failed |-> TRUE]
        /\ UNCHANGED file

ProcessRunning == last.op # "raised"

UnwritableMark ==
    /\ ProcessRunning
    /\ Tick /\ UNCHANGED <<archiveVars, scorerVars, pipelineVars>>
    /\ \E id \in Ids, cat \in Categories :
          \/ unwritable_mark("mark_as_sent", <<id>>, cat)
          \/ unwritable_mark("mark_multiple_as_sent", <<id>>, cat)

UnwritableCleanup ==
    /\ ProcessRunning
    /\ Tick /\ UNCHANGED <<archiveVars, scorerVars, pipelineVars>>
    /\ unwritable_cleanup

WritableMark == ProcessRunning /\ MarkAsSent

\* Eviction.  The ledger is exercised with max_items scaled down to MaxKept,
\* and ids are numbered by arrival: the n-th operation marks IdOf(n).
ArriveAndMark ==
    /\ Tick /\ UNCHANGED <<archiveVars, scorerVars, pipelineVars>>
    /\ \E cat \in Categories :
          \/ mark_as_sent(IdOf(nOps + 1), cat)
          \/ mark_multiple_as_sent(<<IdOf(nOps + 1)>>, cat)

EvictOld ==
    /\ Tick /\ UNCHANGED <<archiveVars, scorerVars, pipelineVars>>
    /\ cleanup_keeping(MaxKept)

(***************************************************************************)
(* Threads sharing the ledger.  Two threads of a pool each run one call on *)
(* the one SentItemsCache of the process; a thread switch can happen       *)
(* between any two statements of a method.  A whole _save_cache is one     *)
(* step.                                                                   *)
(***************************************************************************)
PoolThreads == 1..2

\* one category _load_cache creates and one it does not
CallCategories == {"news", "weekend"}

MarkCall(op, item_ids, category) ==
    [op |-> op, item_ids |-> item_ids, category |-> category,
     at |-> "check", missing |-> FALSE, result |-> FALSE]

Calls ==
    {MarkCall(op, <<id>>, cat) :
        op \in {"is_sent", "mark_as_sent"}, id \in Ids, cat \in CallCategories}
    \cup {MarkCall("mark_multiple_as_sent", SetToList(S), cat) :
            S \in SUBSET Ids \ {{}}, cat \in CallCategories}

Returned == workers # <<>> /\ \A t \in DOMAIN workers : workers[t].at = "done"

\* both threads are handed a call
SubmitCalls ==
    /\ workers = <<>> \/ Returned
    /\ nOps < MaxRounds
    /\ nOps' = nOps + 1
    /\ workers' \in [PoolThreads -> Calls]
    /\ last' = [op |-> "submit", hit |-> FALSE]
    /\ UNCHANGED <<ledgerVars, archiveVars, scorerVars, pc, run, channel>>

\* "if category not in self.cache:" evaluated
CheckCategory(t) ==
    LET w == workers[t] IN
    /\ w.at = "check"
    /\ workers' = [workers EXCEPT
           ![t].missing = w.category \notin DOMAIN cache,
           ![t].at = IF w.category \notin DOMAIN cache THEN "create"
                     ELSE "act"]
    /\ UNCHANGED <<ledgerVars, last>>

\* "self.cache[category] = set()"
CreateCategory(t) ==
    LET w == workers[t] IN
    /\ w.at = "create"
    /\ cache' = Put(cache, w.category, {})
    /\ workers' = [workers EXCEPT ![t].at = "act"]
    /\ UNCHANGED <<file, last>>

\* the statement after the category check: the membership test of is_sent
\* and mark_as_sent, set.update of mark_multiple_as_sent
ActOnCategory(t) ==
    LET w == workers[t]
        held == cache[w.category] IN
    /\ w.at = "act"
    /\ IF w.op = "is_sent"
       THEN /\ workers' = [workers EXCEPT ![t].result = w.item_ids[1] \in held,
                                          ![t].at = "done"]
            /\ UNCHANGED cache
       ELSE IF w.op = "mark_as_sent"
       THEN /\ workers' = [workers EXCEPT
                   ![t].result = w.item_ids[1] \in held,
                   ![t].at = IF w.item_ids[1] \in held THEN "done" ELSE "add"]
            /\ UNCHANGED cache
       ELSE /\ cache' = [cache EXCEPT ![w.category] = @ \cup Range(w.item_ids)]
            /\ workers' = [workers EXCEPT ![t].at = "save"]
    /\ UNCHANGED <<file, last>>

\* "self.cache[category].add(item_id)"
AddToCategory(t) ==
    LET w == workers[t] IN
    /\ w.at = "add"
    /\ cache' = [cache EXCEPT ![w.category] = @ \cup {w.item_ids[1]}]
    /\ workers' = [workers EXCEPT ![t].at = "save"]
    /\ UNCHANGED <<file, last>>

\* "self._save_cache()" and the return
SaveAndReturn(t) ==
    LET w == workers[t] IN
    /\ w.at = "save"
    /\ cache' = Stamp(cache)
    /\ file' = _save_cache(cache')
    /\ workers' = [workers EXCEPT ![t].at = "done"]
    /\ last' = [op |-> w.op, hit |-> w.result]

Frame == UNCHANGED <<nOps, archiveVars, scorerVars, pc, run, channel>>

ThreadCheck == Frame /\ \E t \in DOMAIN workers : CheckCategory(t)

ThreadCreate == Frame /\ \E t \in DOMAIN workers : CreateCategory(t)

ThreadAct == Frame /\ \E t \in DOMAIN workers : ActOnCategory(t)

ThreadAdd == Frame /\ \E t \in DOMAIN workers : AddToCategory(t)

ThreadSave == Frame /\ \E t \in DOMAIN workers : SaveAndReturn(t)

(***************************************************************************)
(* Weekly archive: src/utils/weekly_archive.py                             *)
(* An archived item keeps title, url, importance_score and content_type;   *)
(* source, published_at, description and archived_at are copied through    *)
(* and read by no operation of the archive.                                *)
(***************************************************************************)
EmptyMap == [k \in {} |-> {}]

Urls == 1..MaxUrls

Scores == {500, 700}

ContentType == {"NEWS", "REPORT"}

\* ContentType.value
ContentTypeValue(ct) ==
    CASE ct = "NEWS" -> "news"
      [] ct = "REPORT" -> "report"
      [] ct = "YOUTUBE" -> "youtube"

\* a collected record; each (score, type) version of a url has its own title
ContentItem(u, sc, ct) ==
    [url |-> u, title |-> ToString(sc) \o ct, importance_score |-> sc,
     content_type |-> ct]

\* the records offered to the archive: every url as news with either score
\* and as a report with the lower one
ContentItems ==
    {ContentItem(u, sc, ct) : u \in Urls, sc \in Scores, ct \in ContentType}
    \ {ContentItem(u, 700, "REPORT") : u \in Urls}

Weekday(d) == d % 7

_empty_archive(now) ==
    [week_start |-> now - Weekday(now), items |-> <<>>,
     sector_etf_history |-> EmptyMap, market_index_history |-> EmptyMap]

NoArchive == [exists |-> FALSE, json |-> "object", data |-> _empty_archive(0)]

_load(a, now) ==
    IF ~a.exists \/ a.json = "invalid" THEN _empty_archive(now) ELSE a.data

_save(data) == [exists |-> TRUE, json |-> "object", data |-> data]

\* the for loop of add_items from position i on, without existing_urls.add
RECURSIVE AddLoopNoAdd(_, _, _, _, _)
AddLoopNoAdd(items, i, data_items, existing_urls, added_count) ==
    IF i > Len(items) THEN [items |-> data_items, added_count |-> added_count]
    ELSE IF items[i].url \in existing_urls
         THEN AddLoopNoAdd(items, i + 1, data_items, existing_urls, added_count)
         ELSE AddLoopNoAdd(items, i + 1,
                  Append(data_items,
                         [title |-> items[i].title, url |-> items[i].url,
                          importance_score |-> items[i].importance_score,
                          content_type |-> ContentTypeValue(items[i].content_type)]),
                  existing_urls, added_count + 1)

\* the for loop of add_items from position i on
RECURSIVE AddLoop(_, _, _, _, _)
AddLoop(items, i, data_items, existing_urls, added_count) ==
    IF i > Len(items) THEN [items |-> data_items, added_count |-> added_count]
    ELSE IF items[i].url \in existing_urls
         THEN AddLoop(items, i + 1, data_items, existing_urls, added_count)
         ELSE AddLoop(items, i + 1,
                  Append(data_items,
                         [title |-> items[i].title, url |-> items[i].url,
                          importance_score |-> items[i].importance_score,
                          content_type |-> ContentTypeValue(items[i].content_type)]),
                  existing_urls \cup {items[i].url}, added_count + 1)

\* add_items returning the size of the batch it was given
add_items_count_all(items) ==
    IF items = <<>>
    THEN /\ ret' = 0
         /\ last' = [op |-> "add_items", hit |-> FALSE, known |-> TRUE]
         /\ UNCHANGED <<archive, today>>
    ELSE LET data == _load(archive, today)
             existing_urls == {data.items[j].url : j \in 1..Len(data.items)}
             r == AddLoop(items, 1, data.items, existing_urls, 0) IN
         /\ archive' = IF r.added_count > 0
                       THEN _save([data EXCEPT !.items = r.items])
                       ELSE archive
         /\ ret' = Len(items)
         /\ last' = [op |-> "add_items", hit |-> r.added_count < Len(items),
                      known |-> \A i \in 1..Len(items) :
                                    items[i].url \in existing_urls]
         /\ UNCHANGED today

add_items(items) ==
    IF items = <<>>
    THEN /\ ret' = 0
         /\ last' = [op |-> "add_items", hit |-> FALSE, known |-> TRUE]
         /\ UNCHANGED <<archive, today>>
    ELSE LET data == _load(archive, today)
             existing_urls == {data.items[j].url : j \in 1..Len(data.items)}
             r == AddLoop(items, 1, data.items, existing_urls, 0) IN
         /\ archive' = IF r.added_count > 0
                       THEN _save([data EXCEPT !.items = r.items])
                       ELSE archive
         /\ ret' = r.added_count
         /\ last' = [op |-> "add_items", hit |-> r.added_count < Len(items),
                      known |-> \A i \in 1..Len(items) :
                                    items[i].url \in existing_urls]
         /\ UNCHANGED today

\* list.sort(key=importance_score, reverse=True) done as sort ascending and
\* reverse: equal scores come out in reverse insertion order
RECURSIVE SortDescReversed(_)
SortDescReversed(items) ==
    IF items = <<>> THEN <<>>
    ELSE LET x == items[Len(items)]
             rest == SortDescReversed(SubSeq(items, 1, Len(items) - 1))
             k == Cardinality({j \in 1..Len(rest) :
                      rest[j].importance_score > x.importance_score}) IN
         SubSeq(rest, 1, k) \o <<x>> \o SubSeq(rest, k + 1, Len(rest))

\* list.sort(key=importance_score, reverse=True): stable, highest first
RECURSIVE SortDesc(_)
SortDesc(items) ==
    IF items = <<>> THEN <<>>
    ELSE LET x == items[Len(items)]
             rest == SortDesc(SubSeq(items, 1, Len(items) - 1))
             k == Cardinality({j \in 1..Len(rest) :
                      rest[j].importance_score >= x.importance_score}) IN
         SubSeq(rest, 1, k) \o <<x>> \o SubSeq(rest, k + 1, Len(rest))

RECURSIVE Filter(_, _)
Filter(items, content_type) ==
    IF items = <<>> THEN <<>>
    ELSE (IF Head(items).content_type = content_type THEN <<Head(items)>> ELSE <<>>)
         \o Filter(Tail(items), content_type)

None == "None"

\* get_top_items on the archive document a read on day now
get_top_items(a, now, max_count, content_type) ==
    LET data == _load(a, now)
        items == IF content_type \notin {None, ""}
                 THEN Filter(data.items, content_type)
                 ELSE data.items
        sorted == SortDesc(items) IN
    SubSeq(sorted, 1, IF max_count < Len(sorted) THEN max_count ELSE Len(sorted))

get_items_count(a, now) == Len(_load(a, now).items)

\* market values in hundredths
Values == {0, 300, 400}

index_keys == <<"kospi", "kosdaq", "usd_krw", "jpy_krw", "eur_krw", "wti", "gold">>

\* the MarketSummary fields the collector fills in the model; the rest are None
CollectedKeys == {"kospi", "usd_krw"}

\* a MarketSummary: the fields that are not None, each an IndexData
MarketSummaries ==
    UNION {[ks -> [value : Values]] : ks \in SUBSET CollectedKeys}

Sectors == {"semiconductor"}

Prices == {100, 200}

\* a {sector: SectorETFData} dict
SectorETFDicts == UNION {[ss -> [price : Prices]] : ss \in SUBSET Sectors}

\* add_sector_etf_data dropping the market index entry of the date as well
add_sector_etf_data_clearing(sector_etf_data) ==
    IF DOMAIN sector_etf_data = {}
    THEN /\ last' = [op |-> "add_sector_etf_data", hit |-> FALSE]
         /\ UNCHANGED archiveVars
    ELSE LET data == _load(archive, today)
             history == data.sector_etf_history
             day_data == [sector \in DOMAIN sector_etf_data |->
                             [price |-> sector_etf_data[sector].price]] IN
         /\ archive' = _save([data EXCEPT
                          !.sector_etf_history = Put(history, today, day_data),
                          !.market_index_history =
                              [d \in DOMAIN @ \ {today} |-> @[d]]])
         /\ last' = [op |-> "add_sector_etf_data", hit |-> today \in DOMAIN history]
         /\ UNCHANGED <<today, ret>>

add_sector_etf_data(sector_etf_data) ==
    IF DOMAIN sector_etf_data = {}
    THEN /\ last' = [op |-> "add_sector_etf_data", hit |-> FALSE]
         /\ UNCHANGED archiveVars
    ELSE LET data == _load(archive, today)
             history == data.sector_etf_history
             day_data == [sector \in DOMAIN sector_etf_data |->
                             [price |-> sector_etf_data[sector].price]] IN
         /\ archive' = _save([data EXCEPT
                          !.sector_etf_history = Put(history, today, day_data)])
         /\ last' = [op |-> "add_sector_etf_data", hit |-> today \in DOMAIN history]
         /\ UNCHANGED <<today, ret>>

\* add_market_index_data keeping an entry the date already has
add_market_index_data_keep(market_data) ==
    LET data == _load(archive, today)
        history == data.market_index_history
        day_data == [key \in DOMAIN market_data |->
                        [value |-> market_data[key].value]] IN
    /\ archive' = IF DOMAIN day_data # {}
                  THEN _save([data EXCEPT !.market_index_history =
                           IF today \in DOMAIN history THEN history
                           ELSE Put(history, today, day_data)])
                  ELSE archive
    /\ last' = [op |-> "add_market_index_data",
                hit |-> DOMAIN day_data # {} /\ today \in DOMAIN history]
    /\ UNCHANGED <<today, ret>>

add_market_index_data(market_data) ==
    LET data == _load(archive, today)
        history == data.market_index_history
        day_data == [key \in DOMAIN market_data |->
                        [value |-> market_data[key].value]] IN
    /\ archive' = IF DOMAIN day_data # {}
                  THEN _save([data EXCEPT
                           !.market_index_history = Put(history, today, day_data)])
                  ELSE archive
    /\ last' = [op |-> "add_market_index_data",
                hit |-> DOMAIN day_data # {} /\ today \in DOMAIN history]
    /\ UNCHANGED <<today, ret>>

get_market_index_history(a, now) == _load(a, now).market_index_history

get_sector_etf_history(a, now) == _load(a, now).sector_etf_history

\* sorted(history.keys())
RECURSIVE Sorted(_)
Sorted(S) ==
    IF S = {} THEN <<>>
    ELSE LET m == CHOOSE x \in S : \A y \in S : x <= y IN <<m>> \o Sorted(S \ {m})

\* round(n / d, 0) for d > 0, ties to even
RoundDiv(n, d) ==
    LET q == n \div d
        r == n - q * d IN
    IF 2 * r < d THEN q
    ELSE IF 2 * r > d THEN q + 1
    ELSE IF q % 2 = 0 THEN q ELSE q + 1

\* the percentage taken of the end value instead of the start value
ChangePctOfEnd(change, first_val) ==
    IF first_val + change = 0 THEN 0
    ELSE IF first_val + change > 0 THEN RoundDiv(change * 10000, first_val + change)
    ELSE RoundDiv(0 - change * 10000, 0 - (first_val + change))

\* round((change / first_val) * 100, 2) in hundredths of a percent
ChangePct(change, first_val) ==
    IF first_val = 0 THEN 0
    ELSE IF first_val > 0 THEN RoundDiv(change * 10000, first_val)
    ELSE RoundDiv(0 - change * 10000, 0 - first_val)

\* the inner loop of get_weekly_summary over sorted_dates from position i on
RECURSIVE ScanDates(_, _, _, _, _)
ScanDates(history, sorted_dates, key, i, acc) ==
    IF i > Len(sorted_dates) THEN acc
    ELSE LET date_key == sorted_dates[i]
             has == key \in DOMAIN history[date_key] IN
         ScanDates(history, sorted_dates, key, i + 1,
             IF ~has THEN acc
             ELSE [seen |-> TRUE,
                   first_val |-> IF acc.seen THEN acc.first_val
                                 ELSE history[date_key][key].value,
                   first_date |-> IF acc.seen THEN acc.first_date ELSE date_key,
                   last_val |-> history[date_key][key].value,
                   last_date |-> date_key])

get_weekly_summary(a, now) ==
    LET history == get_market_index_history(a, now)
        sorted_dates == Sorted(DOMAIN history)
        scan(key) == ScanDates(history, sorted_dates, key, 1,
                         [seen |-> FALSE, first_val |-> 0, first_date |-> 0,
                          last_val |-> 0, last_date |-> 0])
        keys == {index_keys[j] : j \in 1..Len(index_keys)} IN
    [key \in {k \in keys : scan(k).seen} |->
        LET sc == scan(key)
            change == sc.last_val - sc.first_val IN
        [start |-> sc.first_val, end |-> sc.last_val,
         start_date |-> sc.first_date, end_date |-> sc.last_date,
         change |-> change, change_pct |-> ChangePct(change, sc.first_val)]]

Populated(a, now) ==
    /\ Len(_load(a, now).items) > 0
    /\ DOMAIN get_market_index_history(a, now) # {}

\* reset that empties the items and keeps the histories
reset_items_only ==
    LET data == _load(archive, today) IN
    /\ archive' = _save([data EXCEPT !.items = <<>>,
                                     !.week_start = today - Weekday(today)])
    /\ last' = [op |-> "reset", hit |-> Populated(archive, today)]
    /\ UNCHANGED <<today, ret>>

reset ==
    /\ archive' = _save(_empty_archive(today))
    /\ last' = [op |-> "reset", hit |-> Populated(archive, today)]
    /\ UNCHANGED <<today, ret>>

InitArchive ==
    /\ archive = NoArchive
    /\ today = 0
    /\ ret = 0

\* operations of the items specification
AddItems ==
    /\ UNCHANGED <<ledgerVars, scorerVars, pipelineVars, nOps>>
    /\ \E items \in SeqsUpTo(ContentItems, MaxItemsBatch) : add_items(items)

ResetItems == UNCHANGED <<ledgerVars, scorerVars, pipelineVars, nOps>> /\ reset

\* the archive files a run can find
StoredArchives ==
    {NoArchive,
     [exists |-> TRUE, json |-> "invalid"],
     [exists |-> TRUE, json |-> "array", data |-> <<>>],
     [exists |-> TRUE, json |-> "object", data |-> EmptyMap],
     [exists |-> TRUE, json |-> "object", data |-> [items |-> <<>>]]}

\* data["items"] of what _load returned: a list has no string index and an
\* object without the key raises KeyError
ItemsReadable(a, now) == "items" \in DOMAIN _load(a, now)

ArchiveAdd ==
    /\ ProcessAlive
    /\ Tick /\ UNCHANGED <<ledgerVars, scorerVars, pipelineVars>>
    /\ \E u \in Urls :
          IF ItemsReadable(archive, today)
          THEN add_items(<<ContentItem(u, 500, "NEWS")>>)
          ELSE Raise("add_items") /\ UNCHANGED <<archive, ret>>

ArchiveTop ==
    /\ ProcessAlive
    /\ Tick /\ UNCHANGED <<ledgerVars, scorerVars, pipelineVars>>
    /\ IF ItemsReadable(archive, today)
       THEN /\ ret' = Len(get_top_items(archive, today, 30, None))
            /\ last' = [op |-> "get_top_items", hit |-> FALSE]
            /\ UNCHANGED <<archive, today>>
       ELSE Raise("get_top_items") /\ UNCHANGED ret

\* operations of the metrics specification
AddOneItem ==
    /\ Tick /\ UNCHANGED <<ledgerVars, scorerVars, pipelineVars>>
    /\ add_items(<<ContentItem(1, 500, "NEWS")>>)

AddSectorEtfData ==
    /\ Tick /\ UNCHANGED <<ledgerVars, scorerVars, pipelineVars>>
    /\ \E d \in SectorETFDicts : add_sector_etf_data(d)

AddMarketIndexData ==
    /\ Tick /\ UNCHANGED <<ledgerVars, scorerVars, pipelineVars>>
    /\ \E m \in MarketSummaries : add_market_index_data(m)

Reset == Tick /\ UNCHANGED <<ledgerVars, scorerVars, pipelineVars>> /\ reset

\* The archive on unwritable storage.  _save has no except clause: a call
\* that reaches it raises the IOError of open(archive_path, "w"), and a call
\* that returns before it does not.
UnwritableAddItems ==
    /\ ProcessRunning
    /\ Tick /\ UNCHANGED <<ledgerVars, scorerVars, pipelineVars>>
    /\ \E items \in {<<>>} \cup {<<ContentItem(u, 500, "NEWS")>> : u \in Urls} :
          LET data == _load(archive, today)
              existing_urls == {data.items[j].url : j \in 1..Len(data.items)}
              r == AddLoop(items, 1, data.items, existing_urls, 0) IN
          IF r.added_count > 0 THEN Raise("add_items") ELSE add_items(items)

UnwritableSectorEtf ==
    /\ ProcessRunning
    /\ Tick /\ UNCHANGED <<ledgerVars, scorerVars, pipelineVars>>
    /\ \E d \in SectorETFDicts :
          IF DOMAIN d # {} THEN Raise("add_sector_etf_data")
          ELSE add_sector_etf_data(d)

UnwritableMarketIndex ==
    /\ ProcessRunning
    /\ Tick /\ UNCHANGED <<ledgerVars, scorerVars, pipelineVars>>
    /\ \E m \in MarketSummaries :
          IF DOMAIN m # {} THEN Raise("add_market_index_data")
          ELSE add_market_index_data(m)

UnwritableReset ==
    /\ ProcessRunning
    /\ Tick /\ UNCHANGED <<ledgerVars, scorerVars, pipelineVars>>
    /\ Raise("reset")

WritableAdd == ProcessRunning /\ AddOneItem

\* the next run happens on a later day
NextDay ==
    /\ Tick
    /\ \E d \in (today + 1)..MaxDays : today' = d
    /\ last' = [op |-> "next_day", hit |-> FALSE]
    /\ UNCHANGED <<ledgerVars, scorerVars, pipelineVars, archive, ret>>

InitLedger ==
    /\ file = NoFile
    /\ cache = _load_cache(NoFile)

(***************************************************************************)
(* Importance scorer: src/analyzer/importance_scorer.py                    *)
(* A text is the set of words it contains; a keyword or a name is found in *)
(* a text when one of the words equals it up to letter case.  Korean names *)
(* of the source are transliterated, and no word of the model contains a   *)
(* keyword of the source lists as a proper part.  Scores are in            *)
(* thousandths.                                                            *)
(***************************************************************************)
Lower(w) ==
    CASE w = "AI" -> "ai"
      [] w = "FOMC" -> "fomc"
      [] w = "Fed" -> "fed"
      [] w = "ETF" -> "etf"
      [] w = "HBM" -> "hbm"
      [] w = "Kim" -> "kim"
      [] w = "Noh" -> "noh"
      [] w = "Yoon" -> "yoon"
      [] w = "Park" -> "park"
      [] w = "Dividend" -> "dividend"
      [] OTHER -> w

LowerAll(text) == {Lower(w) : w \in text}

\* a few of the built-in keywords of each list
COVERED_CALL_KEYWORDS == {"dividend", "SCHD"}

INDUSTRY_KEYWORDS == {"AI", "GPU", "HBM"}

HIGH_IMPORTANCE_KEYWORDS == {"FOMC", "Fed"}

MEDIUM_IMPORTANCE_KEYWORDS == {"ETF", "CPI"}

SOURCE_WEIGHTS == [hankyung |-> 100, infomax |-> 50, maeil |-> 0 - 50]

BaseScore == 500

HIGH_PRIORITY == 700

MEDIUM_PRIORITY == 500

COVERED_CALL_WEIGHT == 300

INDUSTRY_WEIGHT == 200

HIGH_KEYWORD_WEIGHT == 150

MEDIUM_KEYWORD_WEIGHT == 80

HIGH_PRIORITY_WEIGHT == 100

LOW_PRIORITY_WEIGHT == 0 - 100

KeywordBoostCap == 400

DefaultRank == 99

\* re.compile("|".join(escaped lower-cased keywords), re.IGNORECASE).search
_check_keywords(text_lower, keywords) ==
    \E kw \in keywords : Lower(kw) \in LowerAll(text_lower)

\* re.compile(re.escape(name) ..., re.IGNORECASE).search(text)
Search(name, text) == Lower(name) \in LowerAll(text)

\* a in b for the strings of the model
Substring(a, b) == a = "" \/ a = b

Get(d, k, default) == IF k \in DOMAIN d THEN d[k] ELSE default

\* the pattern loop adding up the weights of the entries found
RECURSIVE BestByPatternSum(_, _, _, _, _)
BestByPatternSum(entries, i, text, require_affiliation, best) ==
    IF i > Len(entries) THEN best
    ELSE LET e == entries[i]
             found == e.name # "" /\ Search(e.name, text)
             skipped == /\ require_affiliation
                        /\ e.affiliation # ""
                        /\ e.affiliation \notin text IN
         BestByPatternSum(entries, i + 1, text, require_affiliation,
             IF found /\ ~skipped /\ e.weight > 0
             THEN [matched |-> TRUE, weight |-> best.weight + e.weight, entry |-> e]
             ELSE best)
\* the pattern loop of _check_journalist_priority / _check_analyst_priority
RECURSIVE BestByPattern(_, _, _, _, _)
BestByPattern(entries, i, text, require_affiliation, best) ==
    IF i > Len(entries) THEN best
    ELSE LET e == entries[i]
             found == e.name # "" /\ Search(e.name, text)
             skipped == /\ require_affiliation
                        /\ e.affiliation # ""
                        /\ e.affiliation \notin text IN
         BestByPattern(entries, i + 1, text, require_affiliation,
             IF found /\ ~skipped /\ e.weight > best.weight
             THEN [matched |-> TRUE, weight |-> e.weight, entry |-> e]
             ELSE best)

NoEntry ==
    [name |-> "", affiliation |-> "", weight |-> 0, rank |-> 0, note |-> ""]

NoBest == [matched |-> FALSE, weight |-> 0, entry |-> NoEntry]

FirstNamed(entries, name) ==
    LET hits == {i \in 1..Len(entries) : entries[i].name = name} IN
    IF hits = {} THEN NoBest
    ELSE LET i == CHOOSE k \in hits : \A m \in hits : k <= m IN
         [matched |-> TRUE, weight |-> entries[i].weight, entry |-> entries[i]]

_check_journalist_priority(text, item, rs) ==
    IF rs.journalists = <<>> THEN [weight |-> 0, extra_data |-> item.extra_data]
    ELSE LET extracted == Get(item.extra_data, "journalist", "")
             direct == IF extracted # "" THEN FirstNamed(rs.journalists, extracted)
                       ELSE NoBest
             best == IF ~direct.matched
                     THEN BestByPattern(rs.journalists, 1, text,
                              rs.require_affiliation_match, NoBest)
                     ELSE direct
             e1 == IF best.matched /\ rs.store_journalist_info
                   THEN Put(item.extra_data, "priority_journalist",
                            [name |-> best.entry.name,
                             affiliation |-> best.entry.affiliation,
                             rank |-> best.entry.rank,
                             note |-> best.entry.note])
                   ELSE item.extra_data
             e2 == IF best.matched /\ rs.store_journalist_info
                      /\ rs.flag_priority_articles
                   THEN Put(e1, "is_priority_journalist_article", TRUE)
                   ELSE e1 IN
         [weight |-> best.weight, extra_data |-> e2]

_check_analyst_priority(text, item, rs) ==
    LET named == SelectSeq(rs.analysts, LAMBDA a : a.name # "") IN
    IF named = <<>> THEN [weight |-> 0, extra_data |-> item.extra_data]
    ELSE LET best == BestByPattern(rs.analysts, 1, text,
                         rs.require_affiliation_match, NoBest)
             e1 == IF best.matched /\ rs.store_analyst_info
                   THEN Put(item.extra_data, "priority_analyst",
                            [name |-> best.entry.name,
                             affiliation |-> best.entry.affiliation])
                   ELSE item.extra_data
             e2 == IF best.matched /\ rs.store_analyst_info
                      /\ rs.flag_priority_articles
                   THEN Put(e1, "is_priority_analyst_article", TRUE)
                   ELSE e1 IN
         [weight |-> best.weight, extra_data |-> e2]

\* the loop of _check_keyword_priority
RECURSIVE KeywordLoop(_, _, _, _)
KeywordLoop(keywords, i, text, acc) ==
    IF i > Len(keywords) THEN acc
    ELSE LET k == keywords[i] IN
         KeywordLoop(keywords, i + 1, text,
             IF k.keyword # "" /\ Search(k.keyword, text)
             THEN [total_weight |-> acc.total_weight + k.weight,
                   matched_keywords |-> Append(acc.matched_keywords, k.keyword)]
             ELSE acc)

Min2(a, b) == IF a < b THEN a ELSE b

Max2(a, b) == IF a > b THEN a ELSE b

\* _check_keyword_priority returning total_weight as it is
_check_keyword_priority_uncapped(text, item, rs) ==
    LET named == SelectSeq(rs.keywords, LAMBDA k : k.keyword # "") IN
    IF ~rs.apply_keyword_boost \/ named = <<>>
    THEN [weight |-> 0, extra_data |-> item.extra_data]
    ELSE LET r == KeywordLoop(rs.keywords, 1, text,
                      [total_weight |-> 0, matched_keywords |-> <<>>])
             e == IF r.matched_keywords # <<>>
                  THEN Put(Put(item.extra_data, "priority_keywords",
                               r.matched_keywords),
                           "is_priority_keyword_match", TRUE)
                  ELSE item.extra_data IN
         [weight |-> r.total_weight, extra_data |-> e]

_check_keyword_priority(text, item, rs) ==
    LET named == SelectSeq(rs.keywords, LAMBDA k : k.keyword # "") IN
    IF ~rs.apply_keyword_boost \/ named = <<>>
    THEN [weight |-> 0, extra_data |-> item.extra_data]
    ELSE LET r == KeywordLoop(rs.keywords, 1, text,
                      [total_weight |-> 0, matched_keywords |-> <<>>])
             e == IF r.matched_keywords # <<>>
                  THEN Put(Put(item.extra_data, "priority_keywords",
                               r.matched_keywords),
                           "is_priority_keyword_match", TRUE)
                  ELSE item.extra_data IN
         [weight |-> Min2(r.total_weight, KeywordBoostCap), extra_data |-> e]

\* the loop of _check_report_source_priority
RECURSIVE SourceLoop(_, _, _, _)
SourceLoop(sources, i, item, best) ==
    IF i > Len(sources) THEN best
    ELSE LET sc == sources[i]
             named == \/ Substring(sc.name, item.source)
                      \/ Substring(sc.name, Get(item.extra_data, "broker", ""))
             typed == sc.report_type = ""
                      \/ Lower(sc.report_type) \in LowerAll(item.title) IN
         SourceLoop(sources, i + 1, item,
             IF named /\ typed /\ sc.weight > best.weight
             THEN [matched |-> TRUE, weight |-> sc.weight, entry |-> sc]
             ELSE best)

NoSource == [name |-> "", report_type |-> "", weight |-> 0]

_check_report_source_priority(item, rs) ==
    IF ~rs.apply_source_boost \/ rs.report_sources = <<>>
    THEN [weight |-> 0, extra_data |-> item.extra_data]
    ELSE LET best == SourceLoop(rs.report_sources, 1, item,
                         [matched |-> FALSE, weight |-> 0, entry |-> NoSource])
             e == IF best.matched
                  THEN Put(Put(item.extra_data, "priority_report_source",
                               [name |-> best.entry.name,
                                report_type |-> best.entry.report_type]),
                           "is_priority_source", TRUE)
                  ELSE item.extra_data IN
         [weight |-> best.weight, extra_data |-> e]

\* round(score, 2); no total of the model ends in 5 thousandths, where the
\* binary float of the source decides the direction
Round2(score) == RoundDiv(score, 10) * 10

\* the limit applied without its upper bound
ClampLow(score) == Max2(0, score)

\* max(0.0, min(1.0, score))
Clamp(score) == Max2(0, Min2(1000, score))

\* the number of keywords of a list that the text contains
MatchCount(text_lower, keywords) ==
    Cardinality({kw \in keywords : Lower(kw) \in LowerAll(text_lower)})

\* score_item up to the clamp with a category's weight added once per
\* keyword found
ScoreTotalPerKeyword(item, rs) ==
    LET text == item.title \cup item.description
        text_lower == LowerAll(text)
        cc == _check_keywords(text_lower, COVERED_CALL_KEYWORDS)
        s1 == BaseScore + MatchCount(text_lower, COVERED_CALL_KEYWORDS) * COVERED_CALL_WEIGHT
        x1 == IF cc THEN Put(item.extra_data, "is_covered_call", TRUE)
              ELSE item.extra_data
        s2 == s1 + MatchCount(text_lower, INDUSTRY_KEYWORDS) * INDUSTRY_WEIGHT
        s3 == s2 + MatchCount(text_lower, HIGH_IMPORTANCE_KEYWORDS) * HIGH_KEYWORD_WEIGHT
        s4 == s3 + MatchCount(text_lower, MEDIUM_IMPORTANCE_KEYWORDS) * MEDIUM_KEYWORD_WEIGHT
        s5 == s4 + (CASE item.priority = "HIGH" -> HIGH_PRIORITY_WEIGHT
                      [] item.priority = "LOW" -> LOW_PRIORITY_WEIGHT
                      [] OTHER -> 0)
        s6 == s5 + Get(SOURCE_WEIGHTS, item.source, 0)
        j == _check_journalist_priority(text, [item EXCEPT !.extra_data = x1], rs)
        a == _check_analyst_priority(text, [item EXCEPT !.extra_data = j.extra_data], rs)
        k == _check_keyword_priority(text, [item EXCEPT !.extra_data = a.extra_data], rs)
        r == _check_report_source_priority([item EXCEPT !.extra_data = k.extra_data], rs) IN
    [total |-> s6 + j.weight + a.weight + k.weight + r.weight,
     item |-> [item EXCEPT !.extra_data = r.extra_data]]

\* score_item up to the clamp: the running total and the item as the checks
\* leave it
ScoreTotal(item, rs) ==
    LET text == item.title \cup item.description
        text_lower == LowerAll(text)
        cc == _check_keywords(text_lower, COVERED_CALL_KEYWORDS)
        s1 == BaseScore + (IF cc THEN COVERED_CALL_WEIGHT ELSE 0)
        x1 == IF cc THEN Put(item.extra_data, "is_covered_call", TRUE)
              ELSE item.extra_data
        s2 == s1 + (IF _check_keywords(text_lower, INDUSTRY_KEYWORDS)
                    THEN INDUSTRY_WEIGHT ELSE 0)
        s3 == s2 + (IF _check_keywords(text_lower, HIGH_IMPORTANCE_KEYWORDS)
                    THEN HIGH_KEYWORD_WEIGHT ELSE 0)
        s4 == s3 + (IF _check_keywords(text_lower, MEDIUM_IMPORTANCE_KEYWORDS)
                    THEN MEDIUM_KEYWORD_WEIGHT ELSE 0)
        s5 == s4 + (CASE item.priority = "HIGH" -> HIGH_PRIORITY_WEIGHT
                      [] item.priority = "LOW" -> LOW_PRIORITY_WEIGHT
                      [] OTHER -> 0)
        s6 == s5 + Get(SOURCE_WEIGHTS, item.source, 0)
        j == _check_journalist_priority(text, [item EXCEPT !.extra_data = x1], rs)
        a == _check_analyst_priority(text, [item EXCEPT !.extra_data = j.extra_data], rs)
        k == _check_keyword_priority(text, [item EXCEPT !.extra_data = a.extra_data], rs)
        r == _check_report_source_priority([item EXCEPT !.extra_data = k.extra_data], rs) IN
    [total |-> s6 + j.weight + a.weight + k.weight + r.weight,
     item |-> [item EXCEPT !.extra_data = r.extra_data]]

\* score_item: the value returned and the item with the side data written
Classify(importance_score) ==
    IF importance_score >= HIGH_PRIORITY THEN "HIGH"
    ELSE IF importance_score >= MEDIUM_PRIORITY THEN "MEDIUM"
    ELSE "LOW"

\* score_item that also stores the class of the score in item.priority
score_item_reclassify(item, rs) ==
    LET t == ScoreTotal(item, rs) IN
    [score |-> Round2(Clamp(t.total)),
     item |-> [t.item EXCEPT !.priority = Classify(Round2(Clamp(t.total)))]]

score_item(item, rs) ==
    LET t == ScoreTotal(item, rs) IN
    [score |-> Round2(Clamp(t.total)), item |-> t.item]

\* score_batch that stores the score and leaves the priority as it was
score_batch_keep_priority(items, rs) ==
    [i \in 1..Len(items) |->
        LET r == score_item(items[i], rs) IN
        [r.item EXCEPT !.importance_score = r.score]]

score_batch(items, rs) ==
    [i \in 1..Len(items) |->
        LET r == score_item(items[i], rs) IN
        [r.item EXCEPT !.importance_score = r.score,
                       !.priority = Classify(r.score)]]

\* the settings of _load_journalist_priority when the config has none
DefaultSettings ==
    [require_affiliation_match |-> FALSE, store_journalist_info |-> TRUE,
     store_analyst_info |-> TRUE, flag_priority_articles |-> TRUE,
     apply_keyword_boost |-> TRUE, apply_source_boost |-> TRUE]

WithLists(js, as, ks, ss) ==
    [journalists |-> js, analysts |-> as, keywords |-> ks, report_sources |-> ss]
    @@ DefaultSettings

\* a config without any section, and one with every section
EmptyRuleset == WithLists(<<>>, <<>>, <<>>, <<>>)

FullRuleset ==
    WithLists(
        <<[name |-> "Kim", affiliation |-> "hankyung", weight |-> 300,
           rank |-> 1, note |-> "markets"],
          [name |-> "Lee", affiliation |-> "maeil", weight |-> 0 - 700,
           rank |-> DefaultRank, note |-> ""]>>,
        <<[name |-> "Park", affiliation |-> "", weight |-> 153],
          [name |-> "Noh", affiliation |-> "", weight |-> 100]>>,
        <<[keyword |-> "HBM", weight |-> 300],
          [keyword |-> "qual", weight |-> 153]>>,
        <<[name |-> "SK", report_type |-> "brief", weight |-> 300]>>)

\* the full config with settings: {apply_keyword_boost: false,
\* apply_source_boost: false, store_journalist_info: false,
\* store_analyst_info: false}
SwitchedOffRuleset ==
    [FullRuleset EXCEPT !.apply_keyword_boost = FALSE,
                        !.apply_source_boost = FALSE,
                        !.store_journalist_info = FALSE,
                        !.store_analyst_info = FALSE]

\* a config with entries of equal weight, entries of weight 0 and a journalist
\* who appears both as a byline and beside others in the text
RankedRuleset ==
    WithLists(
        <<[name |-> "Kim", affiliation |-> "hankyung", weight |-> 100,
           rank |-> 3, note |-> ""],
          [name |-> "Noh", affiliation |-> "", weight |-> 300,
           rank |-> 1, note |-> ""],
          [name |-> "Yoon", affiliation |-> "", weight |-> 300,
           rank |-> 2, note |-> ""],
          [name |-> "Lee", affiliation |-> "maeil", weight |-> 0,
           rank |-> DefaultRank, note |-> ""]>>,
        <<[name |-> "Park", affiliation |-> "", weight |-> 0]>>,
        <<>>,
        <<[name |-> "SK", report_type |-> "", weight |-> 100],
          [name |-> "SK", report_type |-> "brief", weight |-> 300],
          [name |-> "SK", report_type |-> "", weight |-> 300]>>)

Rulesets == {EmptyRuleset, FullRuleset}

\* configs that set weights, ranks and settings
ConfiguredRulesets == {FullRuleset, SwitchedOffRuleset, RankedRuleset}

Titles ==
    {{}, {"fed"}, {"Dividend", "AI", "FOMC", "ETF", "hbm", "qual"},
     {"kim", "park", "brief", "noh", "yoon"}}

\* what the collectors of the model put into source, priority and
\* extra_data["journalist"]
Profiles ==
    {[source |-> "hankyung", priority |-> "HIGH", journalist |-> ""],
     [source |-> "maeil", priority |-> "LOW", journalist |-> "Lee"],
     [source |-> "SK", priority |-> "MEDIUM", journalist |-> ""]}

\* what a collector builds: ContentItem(..., priority=<its hint>), with the
\* dataclass default importance_score = 0.5
NewItem(title, source, priority, journalist) ==
    [title |-> title, description |-> {}, source |-> source,
     priority |-> priority, importance_score |-> 500,
     extra_data |-> IF journalist = "" THEN EmptyMap
                    ELSE [k \in {"journalist"} |-> journalist]]

Collect ==
    /\ Len(records) < MaxRecords
    /\ \E title \in Titles, p \in Profiles :
            records' = Append(records,
                           NewItem(title, p.source, p.priority, p.journalist))
    /\ last' = [op |-> "collect", hit |-> FALSE]
    /\ UNCHANGED <<ledgerVars, archiveVars, pipelineVars, ruleset, nOps>>

ScoreBatch ==
    /\ records # <<>>
    /\ records' = score_batch(records, ruleset)
    /\ last' = [op |-> "score_batch",
                hit |-> /\ \E i \in 1..Len(records) :
                              ScoreTotal(records[i], ruleset).total > 1000
                        /\ \E i \in 1..Len(records) :
                              ScoreTotal(records[i], ruleset).total < 0]
    /\ UNCHANGED <<ledgerVars, archiveVars, pipelineVars, ruleset, nOps>>

InitScorer ==
    /\ records = <<>>
    /\ ruleset = EmptyRuleset

InitScorerAny ==
    /\ records = <<>>
    /\ ruleset \in Rulesets

InitScorerConfigured ==
    /\ records = <<>>
    /\ ruleset \in ConfiguredRulesets

(***************************************************************************)
(* Pipeline run: main() of src/main.py, one process per run.  The AI steps *)
(* (summaries, market signal, briefings, report analysis, weekly review    *)
(* and preview) return nothing, as they do without an API key, so the      *)
(* embeds are the header and list embeds.  A record is named by its id.    *)
(***************************************************************************)
KoreanFeed == {IdOf(1), IdOf(2)}

IntlFeed == {"intl1"}

ReportFeed == {"report1"}

VideoFeed == {"video1"}

BriefFeed == {"brief1"}

ScheduleTypes == {"morning", "noon"}

\* the days on which the model starts runs: a Monday, and the Saturday and
\* the Sunday of the same week
CronDays == {0, 5, 6}

get_schedule_type(now, is_holiday, slot) ==
    IF Weekday(now) = 5 THEN "saturday"
    ELSE IF Weekday(now) = 6 THEN "sunday"
    ELSE IF is_holiday THEN "holiday"
    ELSE slot

MAX_KOREAN_NEWS == 14

MAX_INTL_NEWS == 6

NOON_MAX_KOREAN_NEWS == 15

MAX_REPORTS == 10

MAX_YOUTUBE_KOREAN == 5

MIN_SCORE == 300

ItemsPerEmbed == 5

BriefListMax == 5

DefaultBatchSize == 5

DiscordBatchLimit == 10

\* the sector ETF quotes and the market summary one collection returns
CollectedSectorEtf == [sector \in Sectors |-> [price |-> 100]]

CollectedMarket == [key \in {"kospi"} |-> [value |-> 300]]

NoRun ==
    [schedule_type |-> "none", korean_news |-> <<>>,
     international_news |-> <<>>, reports |-> <<>>, korean_videos |-> <<>>,
     morning_briefs |-> <<>>, sector_etf_data |-> EmptyMap,
     market_data |-> EmptyMap, embeds |-> <<>>, success |-> FALSE,
     all_news |-> <<>>, sent_reports |-> <<>>, all_videos |-> <<>>,
     queries |-> 0, resets |-> 0]

\* items[:n]
Take(items, n) == SubSeq(items, 1, Min2(n, Len(items)))

\* [items[start:start + n] for start in range(0, len(items), n)]
Chunks(items, n) ==
    [k \in 1..((Len(items) + n - 1) \div n) |->
        SubSeq(items, (k - 1) * n + 1, Min2(k * n, Len(items)))]

Embed(kind, ids) == [kind |-> kind, ids |-> Range(ids)]

\* create_morning_brief_embed without AI analysis: header and list
create_morning_brief_embed(items) ==
    IF items = <<>> THEN <<>>
    ELSE <<Embed("brief_header", <<>>),
           Embed("brief_list", Take(items, BriefListMax))>>

create_news_list_embeds(items, items_per_embed) ==
    LET chunks == Chunks(items, items_per_embed) IN
    [k \in 1..Len(chunks) |-> Embed("news_list", chunks[k])]

\* the embeds send_to_discord builds and the lists it will mark
BuildEmbeds(r) ==
    LET is_brief_schedule == r.schedule_type \in {"noon", "afternoon"}
        korean_news == Take(r.korean_news,
                            IF r.schedule_type = "noon"
                            THEN NOON_MAX_KOREAN_NEWS ELSE MAX_KOREAN_NEWS)
        intl_news == IF is_brief_schedule THEN <<>>
                     ELSE Take(r.international_news, MAX_INTL_NEWS)
        all_news == korean_news \o intl_news
        reports == IF is_brief_schedule THEN <<>>
                   ELSE Take(r.reports, MAX_REPORTS)
        korean_videos == IF is_brief_schedule THEN <<>>
                         ELSE Take(r.korean_videos, MAX_YOUTUBE_KOREAN)
        e0 == IF r.schedule_type = "morning"
              THEN create_morning_brief_embed(r.morning_briefs) ELSE <<>>
        e1 == IF all_news # <<>> THEN <<Embed("news_header", <<>>)>> ELSE <<>>
        e2 == create_news_list_embeds(korean_news, ItemsPerEmbed)
        e3 == create_news_list_embeds(intl_news, ItemsPerEmbed)
        e4 == IF reports # <<>>
              THEN <<Embed("reports_header", <<>>),
                     Embed("reports_list", Take(reports, MAX_REPORTS))>>
              ELSE <<>>
        e5 == IF korean_videos # <<>>
              THEN <<Embed("youtube_list", Take(korean_videos, MAX_YOUTUBE_KOREAN))>>
              ELSE <<>> IN
    [embeds |-> e0 \o e1 \o e2 \o e3 \o e4 \o e5, all_news |-> all_news,
     reports |-> reports, all_videos |-> korean_videos]

EmbedIds(embeds) == UNION {embeds[i].ids : i \in 1..Len(embeds)}

\* DiscordSender.send_multiple_embeds; accepted[k] tells whether the webhook
\* took batch k within the retries
send_multiple_embeds(embeds, batch_size, accepted) ==
    LET batches == Chunks(embeds, Min2(batch_size, DiscordBatchLimit)) IN
    [success |-> \A k \in 1..Len(batches) : accepted[k],
     delivered |-> UNION {EmbedIds(batches[k]) :
                          k \in {j \in 1..Len(batches) : accepted[j]}}]

NumBatches(embeds, batch_size) ==
    Len(Chunks(embeds, Min2(batch_size, DiscordBatchLimit)))

\* [x for x in feed if not cache.is_sent(x.id, category)]
Unsent(feed, c, category) ==
    SetToList({id \in feed : id \notin WithCategory(c, category)[category]})

InitPipeline ==
    /\ pc = "idle"
    /\ run = NoRun
    /\ channel = {}
    /\ workers = <<>>

\* a new process starts main(): the cache module loads the ledger and
\* get_schedule_type() reads the clock
StartRun ==
    /\ pc = "idle"
    /\ nOps < MaxRuns
    /\ nOps' = nOps + 1
    /\ Restart
    /\ \E d \in {c \in CronDays : c >= today}, is_holiday \in BOOLEAN,
          slot \in ScheduleTypes :
            LET st == get_schedule_type(d, is_holiday, slot) IN
            /\ today' = d
            /\ run' = [NoRun EXCEPT !.schedule_type = st]
            /\ pc' = IF st = "holiday" THEN "holiday" ELSE "collect"
    /\ UNCHANGED <<archive, ret, scorerVars, channel, workers>>

\* the holiday branch of main(): one notice, then return
HolidayNotice ==
    /\ pc = "holiday"
    /\ \E accepted \in [1..1 -> BOOLEAN] :
          LET r == send_multiple_embeds(<<Embed("holiday", <<>>)>>,
                                        DefaultBatchSize, accepted) IN
          last' = [op |-> "holiday", hit |-> r.success]
    /\ pc' = "idle"
    /\ run' = NoRun
    /\ UNCHANGED <<ledgerVars, nOps, archiveVars, scorerVars, channel, workers>>

\* collect_news, collect_reports, collect_youtube, collect_morning_briefs
\* and analyze_content
CollectAll ==
    /\ pc = "collect"
    /\ \E korean \in SUBSET KoreanFeed, intl \in SUBSET IntlFeed,
          reps \in SUBSET ReportFeed, vids \in SUBSET VideoFeed,
          briefs \in SUBSET (IF run.schedule_type = "morning"
                             THEN BriefFeed ELSE {}),
          market \in BOOLEAN :
            LET korean_news == Unsent(korean, cache, "news")
                intl_news == Unsent(intl, cache, "news")
                got == korean_news \o intl_news # <<>> /\ market IN
            /\ run' = [run EXCEPT
                   !.korean_news = korean_news,
                   !.international_news = intl_news,
                   !.reports = Unsent(reps, cache, "reports"),
                   !.korean_videos = Unsent(vids, cache, "youtube"),
                   !.morning_briefs = Unsent(briefs, cache, "morning_brief"),
                   !.sector_etf_data =
                       IF got THEN CollectedSectorEtf ELSE EmptyMap,
                   !.market_data = IF got THEN CollectedMarket ELSE EmptyMap]
            /\ cache' = IF briefs # {} THEN WithCategory(cache, "morning_brief")
                        ELSE cache
    /\ last' = [op |-> "collect", hit |-> FALSE]
    /\ pc' = "send"
    /\ UNCHANGED <<file, nOps, archiveVars, scorerVars, channel, workers>>

\* marking whatever the send reported
AfterSendAlways(success, marking) == marking

\* a thread of the pool of main() running one collect_* function: the
\* records its collector returned, and the dedupe loop over them
Collector(feed, category) ==
    [op |-> "collect", item_ids |-> SetToList(feed), category |-> category,
     at |-> IF feed = {} THEN "done" ELSE "dedupe", next |-> 1, kept |-> <<>>]

CollectorsRunning == \E t \in DOMAIN workers : workers[t].at # "done"

\* executor.submit(collect_news), (collect_reports), (collect_youtube) and,
\* in the morning, (collect_morning_briefs); the other feeds offer their
\* record together or not at all
SubmitCollectors ==
    /\ pc = "collect"
    /\ \E korean \in SUBSET KoreanFeed, offered \in BOOLEAN :
            LET Offer(feed) == IF offered THEN feed ELSE {}
                pool == [news |-> Collector(korean \cup Offer(IntlFeed), "news"),
                         reports |-> Collector(Offer(ReportFeed), "reports"),
                         youtube |-> Collector(Offer(VideoFeed), "youtube")] IN
            workers' = IF run.schedule_type = "morning"
                       THEN Put(pool, "morning_briefs",
                                Collector(Offer(BriefFeed), "morning_brief"))
                       ELSE pool
    /\ last' = [op |-> "submit", hit |-> FALSE]
    /\ pc' = "collecting"
    /\ UNCHANGED <<ledgerVars, nOps, archiveVars, scorerVars, run, channel>>

\* one pass of a dedupe loop: "not cache.is_sent(item.id, category)"
CollectorStep ==
    /\ \E t \in DOMAIN workers :
          LET w == workers[t] IN
          /\ w.at = "dedupe"
          /\ is_sent(w.item_ids[w.next], w.category)
          /\ workers' = [workers EXCEPT
                 ![t].kept = IF last'.hit THEN @
                             ELSE Append(@, w.item_ids[w.next]),
                 ![t].next = @ + 1,
                 ![t].at = IF w.next = Len(w.item_ids) THEN "done" ELSE @]
    /\ UNCHANGED <<nOps, archiveVars, scorerVars, pc, run, channel>>

\* main() leaving the pool without waiting for its threads
JoinWithoutWaiting ==
    /\ pc = "collecting"
    /\ \E market \in BOOLEAN :
          LET news == workers["news"].kept
              got == news # <<>> /\ market IN
          run' = [run EXCEPT
              !.korean_news = SelectSeq(news, LAMBDA id : id \in KoreanFeed),
              !.international_news = SelectSeq(news, LAMBDA id : id \in IntlFeed),
              !.reports = workers["reports"].kept,
              !.korean_videos = workers["youtube"].kept,
              !.morning_briefs = IF "morning_briefs" \in DOMAIN workers
                                 THEN workers["morning_briefs"].kept ELSE <<>>,
              !.sector_etf_data = IF got THEN CollectedSectorEtf ELSE EmptyMap,
              !.market_data = IF got THEN CollectedMarket ELSE EmptyMap]
    /\ last' = [op |-> "collect", hit |-> FALSE]
    /\ pc' = "send"
    /\ UNCHANGED <<ledgerVars, nOps, archiveVars, scorerVars, channel, workers>>

\* the end of "with ThreadPoolExecutor(...)": every future has completed and
\* the pool is shut down; then analyze_content
JoinCollectors ==
    /\ pc = "collecting"
    /\ ~CollectorsRunning
    /\ \E market \in BOOLEAN :
          LET news == workers["news"].kept
              got == news # <<>> /\ market IN
          run' = [run EXCEPT
              !.korean_news = SelectSeq(news, LAMBDA id : id \in KoreanFeed),
              !.international_news = SelectSeq(news, LAMBDA id : id \in IntlFeed),
              !.reports = workers["reports"].kept,
              !.korean_videos = workers["youtube"].kept,
              !.morning_briefs = IF "morning_briefs" \in DOMAIN workers
                                 THEN workers["morning_briefs"].kept ELSE <<>>,
              !.sector_etf_data = IF got THEN CollectedSectorEtf ELSE EmptyMap,
              !.market_data = IF got THEN CollectedMarket ELSE EmptyMap]
    /\ workers' = <<>>
    /\ last' = [op |-> "collect", hit |-> FALSE]
    /\ pc' = "send"
    /\ UNCHANGED <<ledgerVars, nOps, archiveVars, scorerVars, channel>>

\* "if success:" after the send, for a send that marks at step marking
AfterSend(success, marking) == IF success THEN marking ELSE "cleanup"

\* send_to_discord up to the result of send_multiple_embeds
SendToDiscord ==
    /\ pc = "send"
    /\ run.schedule_type \notin {"saturday", "sunday"}
    /\ LET b == BuildEmbeds(run) IN
       IF b.embeds = <<>>
       THEN /\ run' = [run EXCEPT !.success = TRUE]
            /\ pc' = "cleanup"
            /\ UNCHANGED channel
       ELSE \E accepted \in [1..NumBatches(b.embeds, DefaultBatchSize) -> BOOLEAN] :
               LET r == send_multiple_embeds(b.embeds, DefaultBatchSize, accepted) IN
               /\ run' = [run EXCEPT !.embeds = b.embeds,
                                     !.success = r.success,
                                     !.all_news = b.all_news,
                                     !.sent_reports = b.reports,
                                     !.all_videos = b.all_videos]
               /\ channel' = channel \cup r.delivered
               /\ pc' = AfterSend(r.success, "mark_news")
    /\ last' = [op |-> "send_to_discord", hit |-> FALSE]
    /\ UNCHANGED <<ledgerVars, nOps, archiveVars, scorerVars, workers>>

MarkNews ==
    /\ pc = "mark_news"
    /\ mark_multiple_as_sent(run.all_news, "news")
    /\ pc' = "mark_reports"
    /\ UNCHANGED <<nOps, archiveVars, scorerVars, run, channel, workers>>

MarkReports ==
    /\ pc = "mark_reports"
    /\ mark_multiple_as_sent(run.sent_reports, "reports")
    /\ pc' = "mark_youtube"
    /\ UNCHANGED <<nOps, archiveVars, scorerVars, run, channel, workers>>

MarkYoutube ==
    /\ pc = "mark_youtube"
    /\ mark_multiple_as_sent(run.all_videos, "youtube")
    /\ pc' = IF run.morning_briefs # <<>> THEN "mark_briefs" ELSE "archive_items"
    /\ UNCHANGED <<nOps, archiveVars, scorerVars, run, channel, workers>>

MarkBriefs ==
    /\ pc = "mark_briefs"
    /\ mark_multiple_as_sent(run.morning_briefs, "morning_brief")
    /\ pc' = "archive_items"
    /\ UNCHANGED <<nOps, archiveVars, scorerVars, run, channel, workers>>

\* the ContentItem behind an id; its url stands for the id
ItemOf(id, ct) == ContentItem(id, 500, ct)

ArchiveCandidates(r) ==
    SelectSeq([i \in 1..Len(r.all_news) |-> ItemOf(r.all_news[i], "NEWS")]
              \o [i \in 1..Len(r.sent_reports) |->
                      ItemOf(r.sent_reports[i], "REPORT")],
              LAMBDA item : item.importance_score >= MIN_SCORE)

ArchiveItems ==
    /\ pc = "archive_items"
    /\ IF ArchiveCandidates(run) # <<>>
       THEN add_items(ArchiveCandidates(run))
       ELSE /\ last' = [op |-> "send_to_discord", hit |-> FALSE]
            /\ UNCHANGED archiveVars
    /\ pc' = "archive_etf"
    /\ UNCHANGED <<ledgerVars, nOps, scorerVars, run, channel, workers>>

ArchiveSectorEtf ==
    /\ pc = "archive_etf"
    /\ add_sector_etf_data(run.sector_etf_data)
    /\ pc' = "archive_index"
    /\ UNCHANGED <<ledgerVars, nOps, scorerVars, run, channel, workers>>

ArchiveMarketIndex ==
    /\ pc = "archive_index"
    /\ IF DOMAIN run.market_data # {}
       THEN add_market_index_data(run.market_data)
       ELSE /\ last' = [op |-> "send_to_discord", hit |-> FALSE]
            /\ UNCHANGED archiveVars
    /\ pc' = "cleanup"
    /\ UNCHANGED <<ledgerVars, nOps, scorerVars, run, channel, workers>>

\* the ledger keys of send_weekend_to_discord
review_cache_id(now) == "weekly_review_" \o ToString(now)

preview_cache_id(now) == "weekly_sunday_" \o ToString(now)

weekend_sent_id(schedule_type, now) ==
    "weekly_" \o schedule_type \o "_" \o ToString(now)

\* create_weekly_review_embed without review_data
create_weekly_review_embed(archived_items, summary, index_history, etf_history) ==
    <<Embed("review_header", <<>>)>>
    \o (IF DOMAIN index_history # {} \/ DOMAIN summary # {}
        THEN <<Embed("review_index", <<>>)>> ELSE <<>>)
    \o (IF DOMAIN etf_history # {}
        THEN <<Embed("review_sector", <<>>)>> ELSE <<>>)
    \o (IF archived_items # <<>>
        THEN <<Embed("review_events", <<>>)>> ELSE <<>>)

\* create_weekly_preview_embed without preview_data
create_weekly_preview_embed == <<Embed("preview_header", <<>>)>>

\* send_weekend_to_discord: the duplicate check of the day
WeekendCheck ==
    /\ pc = "send"
    /\ run.schedule_type \in {"saturday", "sunday"}
    /\ is_sent(IF run.schedule_type = "saturday" THEN review_cache_id(today)
               ELSE preview_cache_id(today), "weekend")
    /\ IF last'.hit
       THEN /\ run' = [run EXCEPT !.success = TRUE]
            /\ pc' = "cleanup"
       ELSE IF run.schedule_type = "saturday"
       THEN /\ pc' = "digest"
            /\ UNCHANGED run
       ELSE /\ run' = [run EXCEPT !.embeds = create_weekly_preview_embed]
            /\ pc' = "weekend_send"
    /\ UNCHANGED <<nOps, archiveVars, scorerVars, channel, workers>>

\* the Saturday digest resetting the archive on the live-data path too
WeekendDigestAlwaysReset ==
    /\ pc = "digest"
    /\ IF get_items_count(archive, today) > 0
       THEN LET news_items == get_top_items(archive, today, 30, "news")
                report_items == get_top_items(archive, today, 10, "report")
                sector_etf_history == get_sector_etf_history(archive, today)
                market_index_history == get_market_index_history(archive, today)
                weekly_summary_data == get_weekly_summary(archive, today) IN
            /\ run' = [run EXCEPT
                   !.queries = 5,
                   !.embeds = create_weekly_review_embed(
                                  news_items \o report_items,
                                  weekly_summary_data, market_index_history,
                                  sector_etf_history)]
            /\ pc' = "reset"
       ELSE \E live_market \in {EmptyMap, CollectedMarket},
               live_etf \in {EmptyMap, CollectedSectorEtf} :
            /\ run' = [run EXCEPT
                   !.embeds = create_weekly_review_embed(
                                  <<>>, live_market, live_market, live_etf)]
            /\ pc' = "reset"
    /\ last' = [op |-> "digest", hit |-> get_items_count(archive, today) > 0]
    /\ UNCHANGED <<ledgerVars, nOps, archiveVars, scorerVars, channel, workers>>

\* Saturday: the digest queries over the archive, or live data when the
\* archive holds no item
WeekendDigest ==
    /\ pc = "digest"
    /\ IF get_items_count(archive, today) > 0
       THEN LET news_items == get_top_items(archive, today, 30, "news")
                report_items == get_top_items(archive, today, 10, "report")
                sector_etf_history == get_sector_etf_history(archive, today)
                market_index_history == get_market_index_history(archive, today)
                weekly_summary_data == get_weekly_summary(archive, today) IN
            /\ run' = [run EXCEPT
                   !.queries = 5,
                   !.embeds = create_weekly_review_embed(
                                  news_items \o report_items,
                                  weekly_summary_data, market_index_history,
                                  sector_etf_history)]
            /\ pc' = "reset"
       ELSE \E live_market \in {EmptyMap, CollectedMarket},
               live_etf \in {EmptyMap, CollectedSectorEtf} :
            /\ run' = [run EXCEPT
                   !.embeds = create_weekly_review_embed(
                                  <<>>, live_market, live_market, live_etf)]
            /\ pc' = "weekend_send"
    /\ last' = [op |-> "digest", hit |-> get_items_count(archive, today) > 0]
    /\ UNCHANGED <<ledgerVars, nOps, archiveVars, scorerVars, channel, workers>>

\* weekly_archive.reset() after the review embeds are built
WeekendReset ==
    /\ pc = "reset"
    /\ reset
    /\ run' = [run EXCEPT !.resets = @ + 1]
    /\ pc' = "weekend_send"
    /\ UNCHANGED <<ledgerVars, nOps, scorerVars, channel, workers>>

\* what the channel shows once every batch of a weekend send was accepted
WeekendDelivery(schedule_type, now) ==
    "delivered_" \o schedule_type \o "_" \o ToString(now)

WeekendSend ==
    /\ pc = "weekend_send"
    /\ IF run.embeds = <<>>
       THEN /\ run' = [run EXCEPT !.success = FALSE]
            /\ pc' = "cleanup"
            /\ UNCHANGED channel
       ELSE \E accepted \in
                 [1..NumBatches(run.embeds, DefaultBatchSize) -> BOOLEAN] :
               LET r == send_multiple_embeds(run.embeds, DefaultBatchSize,
                                             accepted) IN
               /\ run' = [run EXCEPT !.success = r.success]
               /\ channel' = IF r.success
                             THEN channel \cup
                                    {WeekendDelivery(run.schedule_type, today)}
                             ELSE channel
               /\ pc' = AfterSend(r.success, "mark_weekend")
    /\ last' = [op |-> "send_weekend_to_discord", hit |-> FALSE]
    /\ UNCHANGED <<ledgerVars, nOps, archiveVars, scorerVars, workers>>

MarkWeekend ==
    /\ pc = "mark_weekend"
    /\ mark_as_sent(weekend_sent_id(run.schedule_type, today), "weekend")
    /\ pc' = "cleanup"
    /\ UNCHANGED <<nOps, archiveVars, scorerVars, run, channel, workers>>

\* cache.cleanup_old_entries(days=7) and the end of the process
Cleanup ==
    /\ pc = "cleanup"
    /\ cleanup_old_entries
    /\ pc' = "idle"
    /\ run' = NoRun
    /\ UNCHANGED <<nOps, archiveVars, scorerVars, channel, workers>>

(***************************************************************************)
(* Webhook sender: src/discord/webhook.py, step by step.  workers holds    *)
(* the frame of the send_multiple_embeds call the main thread is in; every *)
(* call of operation() returns a response or raises.                       *)
(***************************************************************************)
MAX_RETRIES == 3

MaxEmbeds == 3

\* batch_size arguments: below, and above, the limit of one message
BatchSizes == {1, 2, 12}

RaisedException == 0 - 1

NoResponse == 0

\* what one call of operation() can end in: a status code or an exception
Outcomes == {200, 204, 400, 429, 500, 599, 600, RaisedException}

EmbedList(n) == [k \in 1..n |-> Embed("list", <<IdOf(k)>>)]

\* the locals of send_multiple_embeds at the head of its loop, and those of
\* the _retry_with_backoff call it is in
SenderCall(embeds, batch_size, webhook_url) ==
    [op |-> "send_multiple_embeds", webhook_url |-> webhook_url,
     embeds |-> embeds, batch_size |-> Min2(batch_size, DiscordBatchLimit),
     i |-> 0, success |-> webhook_url, failed_batches |-> 0, sent |-> <<>>,
     at |-> IF webhook_url THEN "loop" ELSE "returned",
     attempt |-> 0, calls |-> 0, status |-> NoResponse,
     batch_success |-> FALSE]

Retryable(outcome) ==
    \/ outcome = RaisedException
    \/ outcome = 429
    \/ 500 <= outcome /\ outcome < 600

\* the loop of _retry_with_backoff running one attempt more
RetryAttemptOneMore(f, outcome) ==
    LET called == [f EXCEPT !.calls = @ + 1, !.status = outcome] IN
    IF outcome \in {200, 204}
    THEN [called EXCEPT !.at = "batch_done", !.batch_success = TRUE]
    ELSE IF Retryable(outcome)
    THEN IF f.attempt + 1 <= MAX_RETRIES + 1
         THEN [called EXCEPT !.attempt = @ + 1]
         ELSE [called EXCEPT !.at = "batch_done", !.batch_success = FALSE]
    ELSE [called EXCEPT !.at = "batch_done", !.batch_success = FALSE]

\* one pass through the body of `for attempt in range(max_retries + 1)` with
\* what operation() ended in; after the last pass the function returns False
RetryAttempt(f, outcome) ==
    LET called == [f EXCEPT !.calls = @ + 1, !.status = outcome] IN
    IF outcome \in {200, 204}
    THEN [called EXCEPT !.at = "batch_done", !.batch_success = TRUE]
    ELSE IF Retryable(outcome)
    THEN IF f.attempt + 1 <= MAX_RETRIES
         THEN [called EXCEPT !.attempt = @ + 1]
         ELSE [called EXCEPT !.at = "batch_done", !.batch_success = FALSE]
    ELSE [called EXCEPT !.at = "batch_done", !.batch_success = FALSE]

\* the rest of the loop body leaving the loop after a failed batch
AfterBatchBreak(f) ==
    [f EXCEPT !.success = f.batch_success /\ @,
              !.failed_batches = IF f.batch_success THEN @ ELSE @ + 1,
              !.sent = Append(@, [start |-> f.i, accepted |-> f.batch_success]),
              !.i = IF f.batch_success THEN @ + f.batch_size ELSE Len(f.embeds),
              !.at = "loop"]

\* the rest of the loop body of send_multiple_embeds once _retry_with_backoff
\* has returned batch_success
AfterBatch(f) ==
    [f EXCEPT !.success = f.batch_success /\ @,
              !.failed_batches = IF f.batch_success THEN @ ELSE @ + 1,
              !.sent = Append(@, [start |-> f.i, accepted |-> f.batch_success]),
              !.i = @ + f.batch_size,
              !.at = "loop"]

SenderFrame == <<ledgerVars, archiveVars, scorerVars, pc, run, channel>>

SendMultipleEmbeds ==
    /\ workers = <<>>
    /\ nOps < MaxRounds
    /\ nOps' = nOps + 1
    /\ \E n \in 0..MaxEmbeds, batch_size \in BatchSizes,
          webhook_url \in BOOLEAN :
            workers' = <<SenderCall(EmbedList(n), batch_size, webhook_url)>>
    /\ last' = [op |-> "send_multiple_embeds", hit |-> FALSE]
    /\ UNCHANGED SenderFrame

\* for i in range(0, len(embeds), batch_size), and the return after it
BatchLoop ==
    /\ workers # <<>> /\ workers[1].op = "send_multiple_embeds"
    /\ workers[1].at = "loop"
    /\ workers' = <<IF workers[1].i < Len(workers[1].embeds)
                    THEN [workers[1] EXCEPT !.at = "attempt", !.attempt = 0,
                                            !.calls = 0, !.status = NoResponse]
                    ELSE [workers[1] EXCEPT !.at = "returned"]>>
    /\ UNCHANGED <<SenderFrame, last, nOps>>

Attempt ==
    /\ workers # <<>> /\ workers[1].op = "send_multiple_embeds"
    /\ workers[1].at = "attempt"
    /\ \E outcome \in Outcomes :
          workers' = <<RetryAttempt(workers[1], outcome)>>
    /\ UNCHANGED <<SenderFrame, last, nOps>>

BatchDone ==
    /\ workers # <<>> /\ workers[1].op = "send_multiple_embeds"
    /\ workers[1].at = "batch_done"
    /\ workers' = <<AfterBatch(workers[1])>>
    /\ UNCHANGED <<SenderFrame, last, nOps>>

SenderReturn ==
    /\ workers # <<>> /\ workers[1].op = "send_multiple_embeds"
    /\ workers[1].at = "returned"
    /\ workers' = <<>>
    /\ last' = [op |-> "returned", hit |-> workers[1].success]
    /\ UNCHANGED <<SenderFrame, nOps>>

InitCommon ==
    /\ last = [op |-> "init", hit |-> FALSE]
    /\ nOps = 0

Init == InitLedger /\ InitArchive /\ InitScorer /\ InitPipeline /\ InitCommon

Next ==
    \/ IsSent
    \/ MarkAsSent
    \/ MarkMultipleAsSent
    \/ CleanupOldEntries
    \/ RestartProcess

Spec == Init /\ [][Next]_vars

NextArchive == AddItems \/ ResetItems

SpecArchive == Init /\ [][NextArchive]_vars

NextMetrics ==
    \/ AddOneItem
    \/ AddSectorEtfData
    \/ AddMarketIndexData
    \/ Reset
    \/ NextDay

SpecMetrics == Init /\ [][NextMetrics]_vars

NextScorer == Collect \/ ScoreBatch

\* the scorer starts from any of the configurations
InitAnyRuleset ==
    InitLedger /\ InitArchive /\ InitScorerAny /\ InitPipeline /\ InitCommon

SpecScorer == InitAnyRuleset /\ [][NextScorer]_vars

\* the scorer under a config with priority entries and settings
InitConfigured ==
    /\ InitLedger /\ InitArchive /\ InitScorerConfigured /\ InitPipeline
    /\ InitCommon

SpecConfigured == InitConfigured /\ [][NextScorer]_vars

NextPipeline ==
    \/ StartRun
    \/ HolidayNotice
    \/ WeekendCheck
    \/ WeekendDigest
    \/ WeekendReset
    \/ WeekendSend
    \/ MarkWeekend
    \/ CollectAll
    \/ SendToDiscord
    \/ MarkNews
    \/ MarkReports
    \/ MarkYoutube
    \/ MarkBriefs
    \/ ArchiveItems
    \/ ArchiveSectorEtf
    \/ ArchiveMarketIndex
    \/ Cleanup

SpecPipeline == Init /\ [][NextPipeline]_vars

NextPool ==
    \/ StartRun
    \/ HolidayNotice
    \/ SubmitCollectors
    \/ CollectorStep
    \/ JoinCollectors
    \/ SendToDiscord
    \/ MarkNews
    \/ MarkReports
    \/ MarkYoutube
    \/ MarkBriefs
    \/ ArchiveItems
    \/ ArchiveSectorEtf
    \/ ArchiveMarketIndex
    \/ WeekendCheck
    \/ WeekendDigest
    \/ WeekendReset
    \/ WeekendSend
    \/ MarkWeekend
    \/ Cleanup

SpecPool == Init /\ [][NextPool]_vars

\* a process starts on whatever files the last one left
InitDamaged ==
    /\ file \in StoredLedgers
    /\ cache = EmptyCache
    /\ archive \in StoredArchives
    /\ today = 0
    /\ ret = 0
    /\ InitScorer /\ InitPipeline /\ InitCommon

NextDamaged == LoadStored \/ LedgerCall \/ ArchiveAdd \/ ArchiveTop

SpecDamaged == InitDamaged /\ [][NextDamaged]_vars

NextUnwritable ==
    \/ WritableMark
    \/ WritableAdd
    \/ UnwritableMark
    \/ UnwritableCleanup
    \/ UnwritableAddItems
    \/ UnwritableSectorEtf
    \/ UnwritableMarketIndex
    \/ UnwritableReset

SpecUnwritable == Init /\ [][NextUnwritable]_vars

NextEviction == ArriveAndMark \/ EvictOld

SpecEviction == Init /\ [][NextEviction]_vars

NextThreads ==
    \/ SubmitCalls
    \/ ThreadCheck
    \/ ThreadCreate
    \/ ThreadAct
    \/ ThreadAdd
    \/ ThreadSave

SpecThreads == Init /\ [][NextThreads]_vars

NextSender ==
    \/ SendMultipleEmbeds
    \/ BatchLoop
    \/ Attempt
    \/ BatchDone
    \/ SenderReturn

SpecSender == Init /\ [][NextSender]_vars

\* the main thread keeps running: a call of operation() returns or raises,
\* and every sleep is at most MAX_DELAY
SpecSenderFair == SpecSender /\ WF_vars(NextSender)

(***************************************************************************)
(* Claims about the pipeline run                                           *)
(***************************************************************************)
\* C1: across pipeline runs, each in a new process and each ended by
\* cleanup_old_entries, whatever the outcome of each batch, an id shown in a
\* batch the webhook accepted is in no embed of a later send.
C1_AtMostOnce ==
    [][SendToDiscord => EmbedIds(run'.embeds) \cap channel = {}]_vars

(***************************************************************************)
(* Claims about the delivery ledger                                        *)
(***************************************************************************)
\* what is_sent answers in a process that has just loaded document f
FreshIsSent(f, item_id, category) ==
    item_id \in WithCategory(_load_cache(f), category)[category]

LedgerSize(f) == Len(f.news) + Len(f.reports) + Len(f.youtube)

\* C2: for every category the pipeline uses, once mark_as_sent(id, category)
\* or mark_multiple_as_sent([.., id, ..], category) has completed, a new
\* SentItemsCache loaded from the persisted file answers is_sent = true.
C2_LedgerSurvivesRestart ==
    [][\A id \in Ids, cat \in Categories :
          (\/ mark_as_sent(id, cat)
           \/ \E ids \in SeqsUpTo(Ids, MaxBatch) :
                 id \in Range(ids) /\ mark_multiple_as_sent(ids, cat))
          => FreshIsSent(file', id, cat)]_vars

\* C3: a mark_as_sent call for an id the category already holds leaves
\* is_sent true, the category set with the same members, and the persisted
\* ledger no larger.
C3_MarkIdempotent ==
    [][\A id \in Ids, cat \in Categories :
          (cat \in DOMAIN cache /\ id \in cache[cat] /\ mark_as_sent(id, cat))
          => /\ id \in cache'[cat]
             /\ cache'[cat] = cache[cat]
             /\ LedgerSize(file') = LedgerSize(file)]_vars

\* a mark_as_sent call that found its id already marked has returned
C3_Witness == last.op = "mark_as_sent" /\ last.hit

(***************************************************************************)
(* Claims about the weekly archive                                         *)
(***************************************************************************)
\* C4: the archived items never contain two entries with the same url.
C4_UniqueUrls ==
    LET items == archive.data.items IN
    \A i, j \in 1..Len(items) : i # j => items[i].url # items[j].url

\* a two-record batch whose second record repeated the url of the first was
\* added to an empty archive: one record went in, one was skipped
C4_Witness ==
    /\ last.op = "add_items" /\ last.hit
    /\ ret = 1 /\ Len(archive.data.items) = 1

TypeFilters == {None, "news", "report", "youtube"}

\* C7: get_top_items(max_count, content_type) returns at most max_count
\* archived items, all of the requested type when one is given, highest score
\* first and equal scores in insertion order.
C7_TopItems ==
    \A max_count \in 0..(MaxUrls + 1), content_type \in TypeFilters :
        LET all == _load(archive, today).items
            r == get_top_items(archive, today, max_count, content_type)
            Pos(x) == CHOOSE i \in 1..Len(all) : all[i] = x IN
        /\ Len(r) <= max_count
        /\ \A i \in 1..Len(r) :
              /\ r[i] \in Range(all)
              /\ content_type # None => r[i].content_type = content_type
        /\ \A i, j \in 1..Len(r) :
              i < j => \/ r[i].importance_score > r[j].importance_score
                       \/ /\ r[i].importance_score = r[j].importance_score
                          /\ Pos(r[i]) < Pos(r[j])

\* two archived items tie on the score and come back in insertion order
C7_Witness ==
    LET items == archive.data.items IN
    /\ Len(items) = 2
    /\ items[1].importance_score = items[2].importance_score
    /\ get_top_items(archive, today, 2, None) = <<items[1], items[2]>>

DatesWith(history, key) == {d \in DOMAIN history : key \in DOMAIN history[d]}

MinOf(S) == CHOOSE x \in S : \A y \in S : x <= y

MaxOf(S) == CHOOSE x \in S : \A y \in S : x >= y

Abs(x) == IF x < 0 THEN 0 - x ELSE x

IndexKeySet == {index_keys[j] : j \in 1..Len(index_keys)}

\* start, end, dates and change of every metric as the claim describes them
SummaryEnds(pctOk(_, _, _)) ==
    LET history == get_market_index_history(archive, today)
        summary == get_weekly_summary(archive, today) IN
    \A key \in IndexKeySet :
        LET D == DatesWith(history, key) IN
        IF D = {} THEN key \notin DOMAIN summary
        ELSE /\ key \in DOMAIN summary
             /\ summary[key].start_date = MinOf(D)
             /\ summary[key].end_date = MaxOf(D)
             /\ summary[key].start = history[MinOf(D)][key].value
             /\ summary[key].end = history[MaxOf(D)][key].value
             /\ summary[key].change = summary[key].end - summary[key].start
             /\ pctOk(summary[key].change_pct, summary[key].change,
                      summary[key].start)

ExactPct(pct, change, start) == pct * start = change * 10000

RoundedPct(pct, change, start) ==
    IF start = 0 THEN pct = 0
    ELSE 2 * Abs(pct * start - change * 10000) <= Abs(start)

\* C8 as stated: first and last date holding the metric give start, end,
\* change = end - start and change_pct = change / start * 100 exactly.
C8_SummaryExact == SummaryEnds(ExactPct)

\* C8 amended: as above, with change_pct the value of change / start * 100
\* rounded to two decimals, and 0 when start is 0.
C8_SummaryRounded == SummaryEnds(RoundedPct)

\* a metric whose first and last datapoint lie on different dates
C8_Witness ==
    LET summary == get_weekly_summary(archive, today) IN
    /\ "kospi" \in DOMAIN summary
    /\ summary["kospi"].start_date < summary["kospi"].end_date
    /\ summary["kospi"].start = 300 /\ summary["kospi"].end = 400
    /\ summary["kospi"].change_pct = 3333

\* C9: after reset() get_top_items is empty for every max_count and
\* content_type, get_items_count is 0 and get_weekly_summary has no entry.
C9_ResetClears ==
    last.op = "reset" =>
        /\ \A max_count \in 0..(MaxUrls + 1), content_type \in TypeFilters :
              get_top_items(archive, today, max_count, content_type) = <<>>
        /\ get_items_count(archive, today) = 0
        /\ DOMAIN get_weekly_summary(archive, today) = {}

\* reset ran on an archive that held items and metric history
C9_Witness == last.op = "reset" /\ last.hit

\* C10: a snapshot written for a date is what the history holds for that
\* date afterwards, also when the date already had an entry for the metric.
C10_LastWriteWins ==
    [][/\ \A m \in MarketSummaries :
            (add_market_index_data(m) /\ DOMAIN m # {}) =>
                \A key \in DOMAIN m :
                    get_market_index_history(archive', today')[today][key].value
                        = m[key].value
       /\ \A d \in SectorETFDicts :
            (add_sector_etf_data(d) /\ DOMAIN d # {}) =>
                \A sector \in DOMAIN d :
                    get_sector_etf_history(archive', today')[today][sector].price
                        = d[sector].price]_vars

\* a snapshot was written for a date that already had one
C10_Witness == last.op = "add_market_index_data" /\ last.hit

(***************************************************************************)
(* Claims about the importance scorer                                      *)
(***************************************************************************)
\* C5: every score a score_batch pass stores lies in [0.0, 1.0]; it is
\* exactly 1.0 when the base score plus the matched weights exceeds 1.0 and
\* exactly 0.0 when that sum is below 0.0.
C5_Clamping ==
    [][ScoreBatch =>
        \A i \in 1..Len(records) :
            LET total == ScoreTotal(records[i], ruleset).total
                score == records'[i].importance_score IN
            /\ 0 <= score /\ score <= 1000
            /\ total > 1000 => score = 1000
            /\ total < 0 => score = 0]_vars

\* one pass scored a record whose total exceeded 1.0 and one whose total was
\* below 0.0
C5_Witness ==
    /\ last.op = "score_batch" /\ last.hit
    /\ \E i \in 1..Len(records) : records[i].importance_score = 1000
    /\ \E i \in 1..Len(records) : records[i].importance_score = 0

\* C6 as stated: at every point of its lifecycle a record's priority equals
\* classify(importance_score).
C6_PriorityAlways ==
    \A i \in 1..Len(records) :
        records[i].priority = Classify(records[i].importance_score)

\* C6 amended: after every score_batch pass each record's priority equals
\* classify(importance_score).
C6_PriorityAfterScoring ==
    last.op = "score_batch" =>
        \A i \in 1..Len(records) :
            records[i].priority = Classify(records[i].importance_score)

\* a pass left one record high and one record low
C6_Witness ==
    /\ last.op = "score_batch"
    /\ \E i \in 1..Len(records) : records[i].priority = "HIGH"
    /\ \E i \in 1..Len(records) : records[i].priority = "LOW"

(***************************************************************************)
(* Further claims about the weekly archive                                 *)
(***************************************************************************)
\* C11: add_items returns the number of records it appended, which is the
\* growth of the persisted items list; a call whose records all carry urls
\* that are archived already (last.known) returns 0 and leaves the list as
\* it was.
C11_AddedCount ==
    [][last'.op = "add_items" =>
          LET before == _load(archive, today).items
              after == _load(archive', today').items IN
          /\ ret' = Len(after) - Len(before)
          /\ last'.known => ret' = 0 /\ after = before]_vars

\* an add_items call whose records were all archived already returned 0
C11_Witness ==
    /\ last.op = "add_items" /\ last.hit /\ last.known
    /\ ret = 0 /\ Len(archive.data.items) > 0

\* the first Monday after day d
UpcomingMonday(d) == d - Weekday(d) + 7

\* C18: reset() leaves the archive with week_start on the upcoming Monday,
\* the first Monday after the day of the reset.
C18_WeekStartAdvances ==
    [][reset => _load(archive', today').week_start = UpcomingMonday(today)]_vars

(***************************************************************************)
(* Further claims about the pipeline run                                   *)
(***************************************************************************)
\* the ids the ledger holds, in memory or on disk
LedgerIds(c, f) ==
    UNION {c[k] : k \in DOMAIN c \ {"last_updated"}}
    \cup Range(f.news) \cup Range(f.reports) \cup Range(f.youtube)

\* C12: a step of a run adds an id to the ledger, in memory or on disk, only
\* when the Discord send of that run has reported success; in a run whose
\* send reported failure no step adds an id.
C12_MarkAfterSuccess ==
    [][LedgerIds(cache', file') \subseteq LedgerIds(cache, file)
       \/ (run.success /\ run.embeds # <<>>)]_vars

\* a run whose send succeeded has just written new ids into the ledger
C12_Witness ==
    /\ last.op = "mark_multiple_as_sent" /\ ~last.hit
    /\ run.success /\ pc = "mark_reports"
    /\ Range(run.all_news) # {} /\ Range(run.all_news) \subseteq Range(file.news)

(***************************************************************************)
(* Claims about damaged files                                              *)
(***************************************************************************)
Damaged(f) == ~f.exists \/ f.json # "object" \/ DOMAIN f = {"exists", "json"}

\* C16: whatever the ledger file and the archive file hold (nothing, no
\* JSON, a JSON value of the wrong shape), loading the ledger gives the empty
\* state and no is_sent, mark_as_sent, mark_multiple_as_sent, add_items or
\* get_top_items call raises.
C16_DamagedFilesTolerated ==
    /\ last.op # "raised"
    /\ (last.op = "restart" /\ Damaged(file)) =>
          \A cat \in SavedCategories : cache[cat] = {}

\* C17: a call of mark_as_sent, mark_multiple_as_sent, cleanup_old_entries,
\* add_items, add_sector_etf_data, add_market_index_data or reset whose file
\* write fails returns without raising, and after a failed write of a mark
\* call is_sent answers true for the marked ids in the same process.
C17_WriteFailureContained ==
    /\ last.op # "raised"
    /\ (/\ last.op \in {"mark_as_sent", "mark_multiple_as_sent"}
        /\ "failed" \in DOMAIN last)
       => Range(last.item_ids) \subseteq cache[last.category]

(***************************************************************************)
(* Claims about eviction from the ledger                                   *)
(***************************************************************************)
\* the position of an id in the order of arrival
Arrival(id) == CHOOSE n \in 1..(MaxOps + 1) : IdOf(n) = id

\* the n ids of S that arrived last
Newest(S, n) ==
    {id \in S : Cardinality({x \in S : Arrival(x) > Arrival(id)}) < n}

\* C15: after cleanup_old_entries, every category that held more ids than
\* the cap holds exactly the cap most recently inserted ones, and every
\* category at or under the cap holds what it held.
C15_KeepsNewest ==
    [][last'.op = "cleanup_old_entries" =>
          \A cat \in DOMAIN cache \ {"last_updated"} :
              cache'[cat] = IF Cardinality(cache[cat]) > MaxKept
                            THEN Newest(cache[cat], MaxKept)
                            ELSE cache[cat]]_vars

(***************************************************************************)
(* Claims about threads sharing the ledger                                 *)
(***************************************************************************)
\* C13: once the calls of both threads have returned, every id passed to a
\* mark_as_sent or mark_multiple_as_sent call is a member of the set of the
\* category it was marked under.
C13_NoLostUpdate ==
    Returned =>
        \A t \in DOMAIN workers :
            workers[t].op \in {"mark_as_sent", "mark_multiple_as_sent"}
            => Range(workers[t].item_ids) \subseteq cache[workers[t].category]

\* the positions of main() at which its next statement is a mutating call
MutatingSteps ==
    {"mark_news", "mark_reports", "mark_youtube", "mark_briefs",
     "archive_items", "archive_etf", "archive_index", "reset", "mark_weekend",
     "cleanup"}

\* C14: a step that runs mark_as_sent, mark_multiple_as_sent,
\* cleanup_old_entries, add_items, add_sector_etf_data, add_market_index_data
\* or reset, or that changes the ledger file or the archive file, is a step
\* of the main thread at one of its mutating calls, one call per step, taken
\* while no collection worker is still running its is_sent loop.
C14_Serialized ==
    [][((pc \in MutatingSteps /\ pc' # pc)
        \/ file' # file \/ archive' # archive)
       => /\ pc \in MutatingSteps /\ pc' # pc
          /\ ~CollectorsRunning
          /\ UNCHANGED workers]_vars

\* the review run of a Saturday has reset a populated archive after its
\* collection workers had been joined
C14_Witness ==
    /\ last.op = "reset" /\ last.hit
    /\ pc = "weekend_send" /\ workers = <<>>

\* C19: weekly_archive.reset() runs only in a Saturday run that found the
\* archive non-empty, after get_top_items for news and for reports, both
\* histories and get_weekly_summary have returned, and once: a run that ends
\* has reset once when it is a Saturday run that queried a non-empty archive
\* and not at all otherwise (weekday, Sunday, holiday, empty archive).
C19_DigestThenReset ==
    [][/\ reset => /\ run.schedule_type = "saturday"
                   /\ get_items_count(archive, today) > 0
                   /\ run.queries = 5
                   /\ run.resets = 0
       /\ (pc \in {"cleanup", "holiday"} /\ pc' = "idle") =>
             run.resets = IF run.schedule_type = "saturday" /\ run.queries = 5
                          THEN 1 ELSE 0]_vars

\* a Saturday run has reset a populated archive after its five queries
C19_Witness ==
    /\ run.schedule_type = "saturday" /\ run.queries = 5 /\ run.resets = 1
    /\ last.op = "reset" /\ last.hit
    /\ get_items_count(archive, today) = 0

(***************************************************************************)
(* Further claims about the scorer                                         *)
(***************************************************************************)
\* C20: a second score_item call on a record, made right after the first
\* with nothing changed by the caller, returns the value the first returned;
\* what the first call wrote into extra_data does not change it.
C20_Deterministic ==
    \A i \in 1..Len(records) :
        LET first == score_item(records[i], ruleset)
            second == score_item(first.item, ruleset) IN
        second.score = first.score

\* a record into whose extra_data the first call wrote something, scored
\* again with the same result
C20_Witness ==
    \E i \in 1..Len(records) :
        LET first == score_item(records[i], ruleset)
            second == score_item(first.item, ruleset) IN
        /\ DOMAIN first.item.extra_data # DOMAIN records[i].extra_data
        /\ "priority_journalist" \in DOMAIN first.item.extra_data
        /\ second.score = first.score

\* the keyword-list categories of _compile_keyword_patterns with the weight
\* score_item adds for each
KeywordCategories ==
    {[keywords |-> COVERED_CALL_KEYWORDS, weight |-> COVERED_CALL_WEIGHT],
     [keywords |-> INDUSTRY_KEYWORDS, weight |-> INDUSTRY_WEIGHT],
     [keywords |-> HIGH_IMPORTANCE_KEYWORDS, weight |-> HIGH_KEYWORD_WEIGHT],
     [keywords |-> MEDIUM_IMPORTANCE_KEYWORDS, weight |-> MEDIUM_KEYWORD_WEIGHT]}

\* the words a configured priority keyword names
ConfiguredKeywords(rs) ==
    {Lower(rs.keywords[i].keyword) : i \in 1..Len(rs.keywords)}

\* the keywords of a list found in a text
Matched(text, keywords) ==
    {kw \in keywords : Lower(kw) \in LowerAll(text)}

\* putting one more keyword of a category into the text of an item (a
\* keyword that no configured priority keyword names) raises the sum
\* score_item builds by the category's weight when the text matched no
\* keyword of the category, and by nothing when it matched one or more
NoStackingFor(item, rs) ==
    LET total == ScoreTotal(item, rs).total IN
    \A c \in KeywordCategories :
        LET found == Matched(item.title, c.keywords) IN
        \A kw \in c.keywords \ found :
            LET more == [item EXCEPT !.title = @ \cup {kw}] IN
            Lower(kw) \notin ConfiguredKeywords(rs) =>
                ScoreTotal(more, rs).total
                    = total + (IF found = {} THEN c.weight ELSE 0)

\* C21: within a keyword-list category the weight does not stack.  Every
\* record, as a collector creates it and as a scoring pass leaves it, gets
\* the weight of a category once when its text matches one or more keywords
\* of the category, whatever their number, and not at all when it matches
\* none.
C21_NoStacking ==
    [][\A i \in 1..Len(records') :
          (i > Len(records) \/ records'[i] # records[i]) =>
              NoStackingFor(records'[i], ruleset')]_vars

\* a scored record whose text matches two keywords of one category and whose
\* sum holds the weight of that category once
C21_Witness ==
    /\ last.op = "score_batch"
    /\ \E i \in 1..Len(records) : \E c \in KeywordCategories :
          LET item == records[i]
              found == {Lower(kw) : kw \in Matched(item.title, c.keywords)}
              without == [item EXCEPT
                             !.title = {w \in @ : Lower(w) \notin found}] IN
          /\ Cardinality(found) >= 2
          /\ found \cap ConfiguredKeywords(ruleset) = {}
          /\ ScoreTotal(item, ruleset).total
                = ScoreTotal(without, ruleset).total + c.weight

\* the configured priority keywords found in a text, by their place in the
\* config, and the sum of their weights
FoundKeywords(text, rs) ==
    {n \in 1..Len(rs.keywords) :
        rs.keywords[n].keyword # "" /\ Search(rs.keywords[n].keyword, text)}

RECURSIVE WeightSum(_, _)
WeightSum(keywords, places) ==
    IF places = {} THEN 0
    ELSE LET n == CHOOSE m \in places : TRUE IN
         keywords[n].weight + WeightSum(keywords, places \ {n})

TextOf(item) == item.title \cup item.description

KeywordContribution(item, rs) ==
    _check_keyword_priority(TextOf(item), item, rs).weight

\* C22 as stated: the priority-keyword contribution to a record's score is
\* the sum of the weights of all configured priority keywords found in the
\* text, capped at 0.4.
C22_CappedSum ==
    \A i \in 1..Len(records) :
        LET sum == WeightSum(ruleset.keywords,
                             FoundKeywords(TextOf(records[i]), ruleset)) IN
        KeywordContribution(records[i], ruleset) = Min2(sum, KeywordBoostCap)

\* C22 amended: with the setting apply_keyword_boost on, the contribution is
\* that sum capped at 0.4; with the setting off it is 0 whatever the text
\* contains.  It never exceeds 0.4.
C22_CappedSumWhenApplied ==
    \A i \in 1..Len(records) :
        LET sum == WeightSum(ruleset.keywords,
                             FoundKeywords(TextOf(records[i]), ruleset))
            contribution == KeywordContribution(records[i], ruleset) IN
        /\ ruleset.apply_keyword_boost =>
               contribution = Min2(sum, KeywordBoostCap)
        /\ ~ruleset.apply_keyword_boost => contribution = 0
        /\ contribution <= KeywordBoostCap

\* a scored record whose text holds two configured keywords with weights
\* adding up to more than 0.4, and whose contribution is 0.4
C22_Witness ==
    /\ last.op = "score_batch"
    /\ ruleset.apply_keyword_boost
    /\ \E i \in 1..Len(records) :
          LET found == FoundKeywords(TextOf(records[i]), ruleset) IN
          /\ Cardinality(found) >= 2
          /\ WeightSum(ruleset.keywords, found) > KeywordBoostCap
          /\ KeywordContribution(records[i], ruleset) = KeywordBoostCap
          /\ records[i].extra_data["priority_keywords"] = <<"HBM", "qual">>

\* the configured entries that match a record, by their place in the config:
\* a journalist by the byline the collector extracted or by name in the
\* text, an analyst by name in the text, a report source by source or broker
\* name and report type
Byline(item) == Get(item.extra_data, "journalist", "")

AffiliationOk(e, text, rs) ==
    ~(rs.require_affiliation_match /\ e.affiliation # ""
        /\ e.affiliation \notin text)

BylineMatches(item, rs) ==
    {n \in 1..Len(rs.journalists) :
        Byline(item) # "" /\ rs.journalists[n].name = Byline(item)}

NameMatches(entries, item, rs) ==
    {n \in 1..Len(entries) :
        /\ entries[n].name # ""
        /\ Search(entries[n].name, TextOf(item))
        /\ AffiliationOk(entries[n], TextOf(item), rs)}

SourceMatches(item, rs) ==
    {n \in 1..Len(rs.report_sources) :
        LET sc == rs.report_sources[n] IN
        /\ \/ Substring(sc.name, item.source)
           \/ Substring(sc.name, Get(item.extra_data, "broker", ""))
        /\ \/ sc.report_type = ""
           \/ Lower(sc.report_type) \in LowerAll(item.title)}

\* the first-declared entry of the highest weight among the given places
BestOf(entries, places) ==
    CHOOSE n \in places :
        \A m \in places :
            \/ entries[m].weight < entries[n].weight
            \/ entries[m].weight = entries[n].weight /\ n <= m

\* its weight, when that weight is above 0, and 0 otherwise
BestPositive(entries, places) ==
    IF \E n \in places : entries[n].weight > 0
    THEN entries[BestOf(entries, places)].weight
    ELSE 0

JournalistContribution(item, rs) ==
    _check_journalist_priority(TextOf(item), item, rs).weight

AnalystContribution(item, rs) ==
    _check_analyst_priority(TextOf(item), item, rs).weight

SourceContribution(item, rs) ==
    _check_report_source_priority(item, rs).weight

C24_ProvenanceRecorded ==
    last.op = "score_batch" =>
        \A i \in 1..Len(records) :
            LET item == records[i]
                js == BylineMatches(item, ruleset)
                        \cup NameMatches(ruleset.journalists, item, ruleset)
                as == NameMatches(ruleset.analysts, item, ruleset)
                ss == SourceMatches(item, ruleset) IN
            /\ js # {} => "priority_journalist" \in DOMAIN item.extra_data
            /\ as # {} => "priority_analyst" \in DOMAIN item.extra_data
            /\ ss # {} => "priority_report_source" \in DOMAIN item.extra_data

(***************************************************************************)
(* Further claims about the weekend run                                    *)
(***************************************************************************)
\* C25: once a Saturday or Sunday send was delivered in full on a date, no
\* later call of send_weekend_to_discord for the same schedule type on that
\* date, in a later process, sends anything to the webhook.
C25_WeekendSentOnce ==
    [][(WeekendSend /\ run.embeds # <<>>) =>
          WeekendDelivery(run.schedule_type, today) \notin channel]_vars

\* C26: the archive is emptied only when the weekly digest was delivered.
\* When the send of a Saturday digest built from the archive (the five
\* queries were made, so the archive held items) is not accepted in full,
\* the archive still holds items after the send, and the run has not reset
\* it.
C26_ArchiveKeptOnFailure ==
    [][(/\ WeekendSend
        /\ run.schedule_type = "saturday"
        /\ run.queries = 5
        /\ ~run'.success) =>
            /\ run.resets = 0
            /\ get_items_count(archive', today) > 0]_vars

(***************************************************************************)
(* Further claims about scoring passes                                     *)
(***************************************************************************)
\* C27: score_batch applied to its own output, with the same ruleset and
\* nothing else changed, leaves the importance_score and the priority of
\* every record as the first pass set them.
C27_ScoreBatchIdempotent ==
    LET once == score_batch(records, ruleset)
        twice == score_batch(once, ruleset) IN
    \A i \in 1..Len(records) :
        /\ twice[i].importance_score = once[i].importance_score
        /\ twice[i].priority = once[i].priority

(***************************************************************************)
(* Claims about the webhook sender                                         *)
(***************************************************************************)
Sending == workers # <<>> /\ workers[1].op = "send_multiple_embeds"

\* the batches a call has to send, by the index of their first embed
BatchStarts(f) ==
    [k \in 1..NumBatches(f.embeds, f.batch_size) |-> (k - 1) * f.batch_size]

AllAccepted(f) == \A k \in 1..Len(f.sent) : f.sent[k].accepted

\* C28 as stated: when send_multiple_embeds returns it has attempted every
\* batch of the embed list in order, also after a failed batch, and the
\* result is true exactly when every batch was accepted.
C28_AllBatchesAttempted ==
    (Sending /\ workers[1].at = "returned") =>
        LET f == workers[1] IN
        /\ [k \in 1..Len(f.sent) |-> f.sent[k].start] = BatchStarts(f)
        /\ f.success <=> AllAccepted(f)

\* C28 amended: with a webhook url configured, the call attempts every batch
\* in order, also after a failed batch, and returns true exactly when every
\* batch was accepted, which is the result send_multiple_embeds has as a
\* function of the accepted batches; without a webhook url it returns false
\* and attempts no batch.
C28_AllBatchesAttemptedWithUrl ==
    (Sending /\ workers[1].at = "returned") =>
        LET f == workers[1] IN
        IF f.webhook_url
        THEN /\ [k \in 1..Len(f.sent) |-> f.sent[k].start] = BatchStarts(f)
             /\ f.success <=> AllAccepted(f)
             /\ f.success = send_multiple_embeds(f.embeds, f.batch_size,
                                [k \in 1..Len(f.sent) |-> f.sent[k].accepted]).success
             /\ f.failed_batches
                   = Cardinality({k \in 1..Len(f.sent) : ~f.sent[k].accepted})
        ELSE ~f.success /\ f.sent = <<>>

\* a call returns false with its first batch rejected and a later batch
\* accepted
C28_Witness ==
    /\ Sending /\ workers[1].at = "returned"
    /\ workers[1].webhook_url /\ ~workers[1].success
    /\ Len(workers[1].sent) >= 2
    /\ ~workers[1].sent[1].accepted
    /\ workers[1].sent[Len(workers[1].sent)].accepted

InRetry == Sending /\ workers[1].at = "attempt"

WithEntry(h1, h2, now, entry) ==
    /\ DOMAIN h2 = DOMAIN h1 \cup {now}
    /\ \A d \in DOMAIN h1 \ {now} : h2[d] = h1[d]
    /\ h2[now] = entry

\* C30: a metric snapshot write changes only the entry of the current date
\* in its own history: items, week_start, the other history and the entries
\* of all other dates are as before, and an empty snapshot leaves the stored
\* archive as it was.  The entry of the date becomes the snapshot: it holds
\* the metrics of the snapshot and no metric of an earlier snapshot of the
\* same day.
C30_SnapshotFrame ==
    [][/\ \A m \in MarketSummaries :
            add_market_index_data(m) =>
                LET before == _load(archive, today)
                    after == _load(archive', today) IN
                IF DOMAIN m = {} THEN archive' = archive
                ELSE /\ after.items = before.items
                     /\ after.week_start = before.week_start
                     /\ after.sector_etf_history = before.sector_etf_history
                     /\ WithEntry(before.market_index_history,
                                  after.market_index_history, today,
                                  [key \in DOMAIN m |-> [value |-> m[key].value]])
       /\ \A e \in SectorETFDicts :
            add_sector_etf_data(e) =>
                LET before == _load(archive, today)
                    after == _load(archive', today) IN
                IF DOMAIN e = {} THEN archive' = archive
                ELSE /\ after.items = before.items
                     /\ after.week_start = before.week_start
                     /\ after.market_index_history = before.market_index_history
                     /\ WithEntry(before.sector_etf_history,
                                  after.sector_etf_history, today,
                                  [sector \in DOMAIN e |-> [price |-> e[sector].price]])]_vars

\* a market snapshot without one of the collected metrics replaced the entry
\* of a date that already had one, in an archive that holds a sector history
C30_Witness ==
    /\ last.op = "add_market_index_data" /\ last.hit
    /\ LET data == _load(archive, today) IN
       /\ DOMAIN data.market_index_history[today] # CollectedKeys
       /\ DOMAIN data.sector_etf_history # {}

====
